---- MODULE Spec2Model ----
(***************************************************************************)
(* Session lifecycle and recovery of redbook_mcp's BrowserManager          *)
(* (src/src/infrastructure/browser/browser.py) and its LoginStateManager   *)
(* (src/src/infrastructure/browser/login_manager.py).                      *)
(*                                                                         *)
(* Every coroutine is a frame on the call stack of an asyncio task; one    *)
(* action is the code between two await points of one coroutine.  What the *)
(* driver (Playwright, the page, the file system) answers at an await is a *)
(* nondeterministic choice.  The clock advances between any two steps.     *)
(***************************************************************************)
EXTENDS Integers, Sequences, FiniteSets, TLC

\* ------------------------------------------------------------------ bounds
\* The wall clock at construction (time.time() is far from 0, the initial
\* last_health_check).
StartTime == 3000000
\* How often the clock advances in one run.
MaxTicks == 2
\* The deepest call stack explored.
MaxDepth == 10

\* ------------------------------------------------------- program constants
RestartWindow == 3600
HealthCheckInterval == 300
MaxRestartsPerHour == 3
MaxStartAttempts == 3
RetentionDays == 30
SecondsPerDay == 86400

\* The clock advances by a short step (inside the health-check interval; two
\* of them reach it) or by a long one (a short and a long one reach the
\* restart window exactly).
TickSteps == {HealthCheckInterval \div 2, RestartWindow - HealthCheckInterval \div 2}

\* ------------------------------------------------------------------ strings
\* str(e) is a sequence of characters, so that `"closed" in str(e).lower()`
\* is computed as Python computes it.
UpperChars == <<"A","B","C","D","E","F","G","H","I","J","K","L","M",
                "N","O","P","Q","R","S","T","U","V","W","X","Y","Z">>
LowerChars == <<"a","b","c","d","e","f","g","h","i","j","k","l","m",
                "n","o","p","q","r","s","t","u","v","w","x","y","z">>

LowerChar(c) ==
  IF \E i \in 1..26 : UpperChars[i] = c
  THEN LowerChars[CHOOSE i \in 1..26 : UpperChars[i] = c]
  ELSE c

Lower(s) == [i \in 1..Len(s) |-> LowerChar(s[i])]

Contains(hay, needle) ==
  \E i \in 1..(Len(hay) - Len(needle) + 1) :
     SubSeq(hay, i, i + Len(needle) - 1) = needle

KwClosed == <<"c","l","o","s","e","d">>
KwDisconnected == <<"d","i","s","c","o","n","n","e","c","t","e","d">>
KwSingletonLock == <<"S","i","n","g","l","e","t","o","n","L","o","c","k">>
KwProcessSingleton == <<"P","r","o","c","e","s","s","S","i","n","g","l","e","t","o","n">>

\* Errors the page raises, each with what it is (cls), told apart from what
\* the code makes of its text.
MsgTargetClosed == <<"T","a","r","g","e","t"," ","c","l","o","s","e","d">>
MsgClosedUpper == <<"p","i","p","e"," ","C","L","O","S","E","D">>
MsgDisconnected == <<"W","S"," ","D","i","s","c","o","n","n","e","c","t","e","d">>
MsgAwaitBool == <<"o","b","j","e","c","t"," ","b","o","o","l">>
MsgSingleton == <<"n","o"," ","S","i","n","g","l","e","t","o","n","L","o","c","k">>
MsgLaunchFailed == <<"n","o"," ","b","r","o","w","s","e","r">>
MsgNeedLogin == <<"n","e","e","d"," ","l","o","g","i","n">>
MsgStartFinal == <<"s","t","a","r","t"," ","f","a","i","l","e","d">>

ProbeErrors ==
  { [text |-> MsgTargetClosed, cls |-> "disconnected"],
    [text |-> MsgClosedUpper,  cls |-> "disconnected"],
    [text |-> MsgDisconnected, cls |-> "disconnected"],
    [text |-> MsgAwaitBool,    cls |-> "other"] }

\* ------------------------------------------------------------------- state
VARIABLES
  now,                  \* time.time()
  ticks,                \* how often the clock advanced
  playwright_instance,  \* BrowserManager fields: TRUE = not None
  browser_context,
  main_page,
  is_logged_in,
  last_health_check,
  restart_timestamps,
  browser_healthy,      \* _browser_healthy
  disconnect_seen,      \* goto saw a closed/disconnected failure and
                        \* ensure_browser has not been entered since
  at_site,              \* main_page.url starts with https://www.xiaohongshu.com
  login_state_file,     \* per manager, the state file: 0 = absent, else its login_time
  login_state_info,     \* per manager, the file's login_info (ok = the file parses)
  cookie_backups,       \* per manager, the snapshot files of the archive by timestamp
  last_cookie_backup,   \* per manager, _last_cookie_backup
  douyin_browser,       \* the fields of DouyinBrowserManager and its page
  stack,                \* per task: the frames of the coroutines in progress
  ret,                  \* per task: what the last finished coroutine returned
  ev,                   \* the step just taken
  budget_log,           \* history of the restart record, for the budget claims
  last_browser_check    \* BrowserBasedManager._last_browser_check

clockVars == <<now, ticks>>
handleVars == <<playwright_instance, browser_context, main_page>>
storeVars == <<login_state_file, login_state_info, cookie_backups, last_cookie_backup>>

vars == <<now, ticks, playwright_instance, browser_context, main_page,
          is_logged_in, last_health_check, restart_timestamps, browser_healthy,
          disconnect_seen, at_site, login_state_file, login_state_info, cookie_backups,
          last_cookie_backup, douyin_browser, stack, ret, ev, budget_log,
          last_browser_check>>

Tasks == {1, 2}

\* LoginStateManager (xiaohongshu) and DouyinLoginManager keep a state file and
\* a cookie archive each.
Managers == {"xhs", "douyin"}

\* ------------------------------------------------------------- python values
\* A value a caller can put into login_info: <<type, text>>.
PyStr == <<"str", "manual_scan">>
PyTuple == <<"tuple", "1">>
PyDatetime == <<"datetime", "2026">>
PyValues == {PyStr, PyTuple, PyDatetime}

\* login_info: None, or a dict as its set of <<key, value>> items.
PyNone == [none |-> TRUE, items |-> {}]
PyDict(items) == [none |-> FALSE, items |-> items]
Infos == {PyNone, PyDict({})} \cup {PyDict({<<"login_method", v>>}) : v \in PyValues}

\* The dicts the program passes (browser.py:227, login_manager.py:239, 256).
InfoRestart == PyDict({<<"restart_reason", <<"str", "browser_restart">>>>})
InfoManual == PyDict({<<"login_method", <<"str", "manual_scan">>>>})
InfoAlready == PyDict({<<"login_method", <<"str", "already_logged_in">>>>})


\* DouyinBrowserManager.__init__ (douyin_browser.py lines 16-24): the handles
\* (TRUE = not None) and is_logged_in; with them what the page and the context
\* are like: closed = main_page.is_closed(), at_site = the url starts with
\* https://www.douyin.com, cookies = the snapshot added to the context (0 = none).
DouyinNew == [playwright |-> FALSE, browser |-> FALSE, context |-> FALSE, main_page |-> FALSE,
              is_logged_in |-> FALSE, closed |-> FALSE, at_site |-> FALSE, cookies |-> 0]

\* ------------------------------------------------------------------ frames
Frame(fn, pc) == [fn |-> fn, pc |-> pc, ct |-> 0, fc |-> FALSE, n |-> 0, ts0 |-> <<>>,
                  mgr |-> "xhs", arg |-> PyNone]

RV(k, msg, note) == [k |-> k, msg |-> msg, note |-> note]
NoRet == RV("none", <<>>, "")

Ev(t, k, out) == [t |-> t, k |-> k, out |-> out, note |-> "", n |-> 0, m |-> 0, ts0 |-> <<>>,
                 dc |-> FALSE, mgr |-> "xhs", info |-> PyNone, files |-> {}, li |-> FALSE]

Top(t) == stack[t][Len(stack[t])]
At(t, fn, pc) == /\ stack[t] # <<>>
                 /\ Top(t).fn = fn
                 /\ Top(t).pc = pc
SetTop(s, f) == [s EXCEPT ![Len(s)] = f]
PopS(s) == SubSeq(s, 1, Len(s) - 1)

\* `return` / `raise`: the coroutine's frame goes, its caller sees the value.
Return(t, rv) ==
  /\ stack' = [stack EXCEPT ![t] = PopS(stack[t])]
  /\ ret' = [ret EXCEPT ![t] = rv]

\* `await callee(...)`: the caller waits at `resume`.
Call(t, resume, callee) ==
  /\ Len(stack[t]) < MaxDepth
  /\ stack' = [stack EXCEPT ![t] = Append(SetTop(stack[t], resume), callee)]
  /\ ret' = [ret EXCEPT ![t] = NoRet]

\* The coroutine goes on to its next await point.
Jump(t, frame) ==
  /\ stack' = [stack EXCEPT ![t] = SetTop(stack[t], frame)]
  /\ ret' = [ret EXCEPT ![t] = NoRet]

\* -------------------------------------------------------- restart budget
\* (mutant) the record is never pruned
PruneNothing(ts, ct) == ts

\* (mutant) every entry is dropped, whatever its age
PruneEverything(ts, ct) == <<>>

\* [t for t in self.restart_timestamps if current_time - t < 3600]
Prune(ts, ct) == SelectSeq(ts, LAMBDA x : ct - x < RestartWindow)

\* (mutant) the limit compared with > instead of >=
OverLimitOffByOne(ts) == Len(ts) > MaxRestartsPerHour

\* len(self.restart_timestamps) >= self.max_restarts_per_hour
OverLimit(ts) == Len(ts) >= MaxRestartsPerHour

\* _can_restart(): its answer (its pruning of the record is the caller's
\* restart_timestamps' = Prune(restart_timestamps, now)).
CanRestart(ts, ct) == ~OverLimit(Prune(ts, ct))

\* The entries of the record younger than the window, counted one by one.
YoungCount(ts, ct) == Cardinality({i \in 1..Len(ts) : ts[i] > ct - RestartWindow})


\* What the record's history means for the budget: pure = every entry of the
\* record was appended by a full restart that completed since the record was
\* last seen empty, none of them pruned since; fr = how many such restarts.
BudgetSeenPruned(old, pruned) ==
  IF pruned = <<>> THEN [pure |-> TRUE, fr |-> 0]
  ELSE IF pruned # old THEN [pure |-> FALSE, fr |-> 0]
  ELSE budget_log

\* ---------------------------------------------------------- ensure_browser
\* A caller (a tool, a manager) awaits ensure_browser(force_check).
CallEnsureBrowser(t) ==
  /\ stack[t] = <<>>
  /\ \E fc \in BOOLEAN :
       stack' = [stack EXCEPT ![t] = <<[Frame("ensure_browser", "enter") EXCEPT !.fc = fc]>>]
  /\ ret' = [ret EXCEPT ![t] = NoRet]
  /\ ev' = Ev(t, "call_ensure_browser", "")
  /\ UNCHANGED <<clockVars, handleVars, storeVars, is_logged_in, last_health_check,
                 restart_timestamps, browser_healthy, disconnect_seen, douyin_browser, at_site, budget_log, last_browser_check>>

\* (mutant) _safe_restart() awaited outside the try block
EnsureBrowserCatchesButRestart(pc) == pc # "after_restart"

\* current_time of ensure_browser (line 62) lives as long as the call; the
\* frame of a top-level call keeps it, a nested frame drops it once line 105
\* can no longer read it.
CallTime(t, f) == IF Len(stack[t]) = 1 THEN f.ct ELSE 0

\* Every await of ensure_browser is inside its try block (lines 60-108).
EnsureBrowserCatches(pc) == TRUE

\* The except block of ensure_browser (lines 108-119): _can_restart(), then
\* _light_recovery() under its own try.
EnsureBrowserHandler(t, f) ==
  LET pruned == Prune(restart_timestamps, now) IN
  /\ restart_timestamps' = pruned
  /\ budget_log' = BudgetSeenPruned(restart_timestamps, pruned)
  /\ IF ~OverLimit(pruned)
     THEN /\ Call(t, [f EXCEPT !.pc = "after_light", !.ct = CallTime(t, f), !.ts0 = <<>>],
                  Frame("_light_recovery", "enter"))
          /\ ev' = Ev(t, "eb_handler", "light_recovery")
     ELSE /\ Return(t, RV("false", <<>>, "handler_denied"))
          /\ ev' = Ev(t, "eb_return", "handler_denied")

\* A callee of ensure_browser raised: caught by the try block, or not.
EnsureBrowserRaised(t, f) ==
  IF EnsureBrowserCatches(f.pc)
  THEN EnsureBrowserHandler(t, f)
  ELSE /\ Return(t, [ret[t] EXCEPT !.note = "propagated"])
       /\ ev' = Ev(t, "eb_return", "raise")
       /\ UNCHANGED <<restart_timestamps, budget_log>>

\* Lines 61-95: prune, rate limit, fast path, then bring-up or health check.
EB_Enter(t) ==
  /\ At(t, "ensure_browser", "enter")
  /\ LET f == Top(t)
         current_time == now
         pruned == Prune(restart_timestamps, current_time)
         young == YoungCount(restart_timestamps, current_time)
         g == [f EXCEPT !.ct = current_time, !.ts0 = pruned]
         E(out) == [Ev(t, "eb_enter", out) EXCEPT !.n = young, !.m = Len(restart_timestamps),
                                                 !.note = IF f.fc THEN "forced" ELSE "",
                                                 !.dc = disconnect_seen]
     IN
     /\ restart_timestamps' = pruned
     /\ budget_log' = BudgetSeenPruned(restart_timestamps, pruned)
     /\ IF OverLimit(pruned)
        THEN /\ Return(t, RV("false", <<>>, "rate_limited"))
             /\ ev' = E("rate_limited")
        ELSE IF ~f.fc /\ browser_context /\ main_page
                /\ current_time - last_health_check < HealthCheckInterval
        THEN /\ Return(t, RV("true", <<>>, "fast"))
             /\ ev' = E("fast")
        ELSE IF ~browser_context \/ ~main_page
        THEN /\ Call(t, [f EXCEPT !.pc = "after_start", !.ct = CallTime(t, g)],
                     Frame("_start_browser", "begin"))
             /\ ev' = E("start")
        ELSE /\ Call(t, [g EXCEPT !.pc = "after_probe"], Frame("_needs_browser_restart", "enter"))
             /\ ev' = E("probe")
  /\ disconnect_seen' = FALSE
  /\ UNCHANGED douyin_browser
  /\ UNCHANGED <<clockVars, handleVars, storeVars, is_logged_in, last_health_check,
                 browser_healthy, at_site, last_browser_check>>

\* Lines 80-84: _start_browser() is back.
EB_AfterStart(t) ==
  /\ At(t, "ensure_browser", "after_start")
  /\ ret[t].k # "none"
  /\ LET f == Top(t) IN
     IF ret[t].k = "raise"
     THEN EnsureBrowserRaised(t, f)
     ELSE /\ Call(t, [f EXCEPT !.pc = "after_restore"], Frame("auto_restore_login", "enter"))
          /\ ev' = Ev(t, "eb_started", "")
          /\ UNCHANGED <<restart_timestamps, budget_log>>
  /\ UNCHANGED <<clockVars, handleVars, storeVars, is_logged_in, last_health_check,
                 browser_healthy, disconnect_seen, douyin_browser, at_site, last_browser_check>>

\* Lines 84-92: auto_restore_login() is back; whatever it did, return True.
EB_AfterRestore(t) ==
  /\ At(t, "ensure_browser", "after_restore")
  /\ ret[t].k # "none"
  /\ Return(t, RV("true", <<>>, "cold_start"))
  /\ ev' = [Ev(t, "eb_return", "cold_start") EXCEPT !.note = ret[t].note]
  /\ UNCHANGED <<clockVars, handleVars, storeVars, is_logged_in, last_health_check,
                 restart_timestamps, browser_healthy, disconnect_seen, douyin_browser, at_site, budget_log, last_browser_check>>

\* Lines 95-106: _needs_browser_restart() is back.
EB_AfterProbe(t) ==
  /\ At(t, "ensure_browser", "after_probe")
  /\ ret[t].k # "none"
  /\ LET f == Top(t)
         pruned == Prune(restart_timestamps, now)
         E(k, out) == [Ev(t, k, out) EXCEPT !.note = ret[t].note, !.ts0 = f.ts0]
     IN
     IF ret[t].k = "raise"
     THEN /\ EnsureBrowserRaised(t, f)
          /\ UNCHANGED last_health_check
     ELSE IF ret[t].k = "true"
     THEN /\ restart_timestamps' = pruned
          /\ budget_log' = BudgetSeenPruned(restart_timestamps, pruned)
          /\ UNCHANGED last_health_check
          /\ IF ~OverLimit(pruned)
             THEN /\ Call(t, [f EXCEPT !.pc = "after_restart", !.ct = CallTime(t, f), !.ts0 = <<>>],
                          Frame("_safe_restart", "enter"))
                  /\ ev' = E("eb_unhealthy", "restart")
             ELSE /\ Return(t, RV("false", <<>>, "restart_denied"))
                  /\ ev' = E("eb_return", "restart_denied")
     ELSE /\ last_health_check' = f.ct
          /\ Return(t, RV("true", <<>>, "healthy"))
          /\ ev' = E("eb_return", "healthy")
          /\ UNCHANGED <<restart_timestamps, budget_log>>
  /\ UNCHANGED <<clockVars, handleVars, storeVars, is_logged_in, browser_healthy, disconnect_seen, douyin_browser,
                 at_site, last_browser_check>>

\* Lines 98-99: _safe_restart() is back.
EB_AfterRestart(t) ==
  /\ At(t, "ensure_browser", "after_restart")
  /\ ret[t].k # "none"
  /\ LET f == Top(t) IN
     IF ret[t].k = "raise"
     THEN EnsureBrowserRaised(t, f)
     ELSE /\ Return(t, RV("true", <<>>, "restarted"))
          /\ ev' = Ev(t, "eb_return", "restarted")
          /\ UNCHANGED <<restart_timestamps, budget_log>>
  /\ UNCHANGED <<clockVars, handleVars, storeVars, is_logged_in, last_health_check,
                 browser_healthy, disconnect_seen, douyin_browser, at_site, last_browser_check>>

\* Lines 113-119: _light_recovery() is back; its result is not looked at.
EB_AfterLight(t) ==
  /\ At(t, "ensure_browser", "after_light")
  /\ ret[t].k # "none"
  /\ IF ret[t].k = "raise"
     THEN /\ Return(t, RV("false", <<>>, "light_raised"))
          /\ ev' = Ev(t, "eb_return", "light_raised")
     ELSE /\ Return(t, RV("true", <<>>, "light"))
          /\ ev' = [Ev(t, "eb_return", "light") EXCEPT !.note = ret[t].k, !.ts0 = Top(t).ts0]
  /\ UNCHANGED <<clockVars, handleVars, storeVars, is_logged_in, last_health_check,
                 restart_timestamps, browser_healthy, disconnect_seen, douyin_browser, at_site, budget_log, last_browser_check>>


\* --------------------------------------------------- _needs_browser_restart
\* (mutant) the text matched without .lower()
IsClosedErrorCaseSensitive(msg) ==
  Contains(msg, KwClosed) \/ Contains(msg, KwDisconnected)

\* "closed" in str(e).lower() or "disconnected" in str(e).lower()   (line 153)
IsClosedError(msg) ==
  Contains(Lower(msg), KwClosed) \/ Contains(Lower(msg), KwDisconnected)

\* The verdict of line 153 on each error the probe can raise.
ProbeErrorClosed == [e \in ProbeErrors |-> IsClosedError(e.text)]

\* Lines 121-158: existence, then the page, then the liveness probe
\* main_page.is_closed(), whose error is classified by its text.
NB_Probe(t) ==
  /\ At(t, "_needs_browser_restart", "enter")
  /\ LET R(k, note) == /\ Return(t, RV(k, <<>>, note))
                       /\ ev' = [Ev(t, "probe", k) EXCEPT !.note = note]
     IN
     IF ~browser_context \/ ~playwright_instance
     THEN R("true", "no_handle") /\ UNCHANGED main_page
     ELSE IF ~main_page
     THEN \/ main_page' = TRUE /\ R("false", "page_recovered")
          \/ UNCHANGED main_page /\ R("true", "no_page")
     ELSE /\ UNCHANGED main_page
          /\ \/ R("false", "open")
             \/ R("true", "closed")
             \/ \E e \in ProbeErrors :
                  /\ Return(t, RV(IF ProbeErrorClosed[e] THEN "true" ELSE "false", <<>>,
                                  IF e.cls = "disconnected" THEN "raised_disconnected"
                                                            ELSE "raised_other"))
                  /\ ev' = [Ev(t, "probe", "raised") EXCEPT !.note = e.cls]
  /\ UNCHANGED <<clockVars, playwright_instance, browser_context, storeVars,
                 is_logged_in, last_health_check, restart_timestamps,
                 browser_healthy, disconnect_seen, douyin_browser, at_site, budget_log, last_browser_check>>

\* ----------------------------------------------------------- _light_recovery
\* (mutant) a light recovery is recorded like a restart
LightRecoveryRecordAppends(ts, ct) == Append(ts, ct)

\* Lines 179-215: no statement of _light_recovery writes restart_timestamps.
LightRecoveryRecord(ts, ct) == ts

\* _light_recovery() awaited on its own, whatever state the session is in.
CallLightRecovery(t) ==
  /\ stack[t] = <<>>
  /\ stack' = [stack EXCEPT ![t] = <<Frame("_light_recovery", "enter")>>]
  /\ ret' = [ret EXCEPT ![t] = NoRet]
  /\ ev' = Ev(t, "call_light_recovery", "")
  /\ UNCHANGED <<clockVars, handleVars, storeVars, is_logged_in, last_health_check,
                 restart_timestamps, browser_healthy, disconnect_seen, douyin_browser, at_site,
                 budget_log, last_browser_check>>

\* Lines 179-215: a new page, else the first existing page, else False.
\* Exceptions are caught inside; nothing is raised.
LR_Recover(t) ==
  /\ At(t, "_light_recovery", "enter")
  /\ restart_timestamps' = LightRecoveryRecord(restart_timestamps, now)
  /\ LET E(out) == [Ev(t, "light_recovery", out) EXCEPT !.ts0 = restart_timestamps] IN
     IF browser_context
     THEN \/ /\ main_page' = TRUE          \* new_page() succeeded
             /\ at_site' = FALSE
             /\ Return(t, RV("true", <<>>, "new_page"))
             /\ ev' = E("new_page")
          \/ /\ main_page' = TRUE          \* new_page() raised, pages[0] exists
             /\ at_site' \in BOOLEAN
             /\ Return(t, RV("true", <<>>, "reused"))
             /\ ev' = E("reused")
          \/ /\ UNCHANGED <<main_page, at_site>>   \* new_page() raised, no pages
             /\ Return(t, RV("false", <<>>, "failed"))
             /\ ev' = E("failed")
     ELSE /\ UNCHANGED <<main_page, at_site>>
          /\ Return(t, RV("false", <<>>, "failed"))
          /\ ev' = E("failed")
  /\ UNCHANGED <<clockVars, playwright_instance, browser_context, storeVars,
                 is_logged_in, last_health_check,
                 browser_healthy, disconnect_seen, douyin_browser, budget_log, last_browser_check>>

\* ------------------------------------------------------------ the state file
\* json.dump raises TypeError on a value that is not of a JSON type.
JsonSerializable(v) == v[1] \in {"str", "int", "list", "tuple"}

\* What json.load gives back for a dumped value: a tuple comes back as a list.
JsonDecoded(v) == IF v[1] = "tuple" THEN <<"list", v[2]>> ELSE v

\* "login_info": login_info or {}      (login_manager.py:48)
StoredInfo(info) == IF info.none THEN {} ELSE info.items

\* The content of a state file: its login_info, or a file that does not parse.
FileInfo(items) == [ok |-> TRUE, items |-> items]
NoInfo == FileInfo({})
Truncated == [ok |-> FALSE, items |-> {}]

\* (mutant) a record expires when it reaches the retention age
ExpiredAtDeadline(login_time, ct) == ct - login_time >= RetentionDays * SecondsPerDay

\* login_manager.py line 81: datetime.now() - login_time > timedelta(days=30)
Expired(login_time, ct) == ct - login_time > RetentionDays * SecondsPerDay

\* load_login_state (login_manager.py lines 63-91, douyin_login_manager.py
\* lines 61-89) with clear_login_state: what it returns (found, login_time,
\* login_info) and the file it leaves (file, info).
LoadResult(file, info, ct) ==
  IF file = 0
  THEN [found |-> FALSE, why |-> "absent", login_time |-> 0, login_info |-> {},
        file |-> file, info |-> info]
  ELSE IF ~info.ok
  THEN [found |-> FALSE, why |-> "error", login_time |-> 0, login_info |-> {},
        file |-> file, info |-> info]
  ELSE IF Expired(file, ct)
  THEN [found |-> FALSE, why |-> "expired", login_time |-> 0, login_info |-> {},
        file |-> 0, info |-> NoInfo]
  ELSE [found |-> TRUE, why |-> "loaded", login_time |-> file, login_info |-> info.items,
        file |-> file, info |-> info]

\* ------------------------------------------------------------ _backup_cookies
XhsBackupInterval == 1800
DouyinBackupInterval == 3600
MaxBackups == 5

BackupInterval(m) == IF m = "xhs" THEN XhsBackupInterval ELSE DouyinBackupInterval

\* (mutant) the old snapshots are never deleted
PruneBackupsNever(files) == files

\* (mutant) the archive is cut from the wrong end: the oldest 5 stay
PruneBackupsOldest(files) ==
  IF Cardinality(files) > MaxBackups
  THEN {f \in files : Cardinality({g \in files : g < f}) < MaxBackups}
  ELSE files

\* sorted(glob(...)); if len(backup_files) > 5: unlink backup_files[:-5]
PruneBackups(files) ==
  IF Cardinality(files) > MaxBackups
  THEN {f \in files : Cardinality({g \in files : g > f}) < MaxBackups}
  ELSE files

\* (mutant) a backup is always due
BackupSkippedNever(ct, last, m) == FALSE

\* current_time - self._last_cookie_backup < backup_interval
BackupSkipped(ct, last, m) == ct - last < BackupInterval(m)

\* The session whose cookies are read: browser_context of BrowserManager,
\* context of DouyinBrowserManager.
SessionLive(m) == IF m = "xhs" THEN browser_context ELSE douyin_browser.context

\* login_manager.py lines 266-299 and douyin_login_manager.py lines 257-283:
\* skip inside the interval; else write a snapshot named by the second, prune
\* the archive to its newest 5, note the time.  LoginStateManager returns early
\* without a context and leaves on an error before the time is noted;
\* DouyinLoginManager leaves both to save_cookies, which writes nothing then and
\* raises nothing (douyin_browser.py lines 238-249).
BackupCookies(t) ==
  /\ stack[t] # <<>>
  /\ Top(t).fn = "_backup_cookies"
  /\ LET m == Top(t).mgr
         current_time == now
         E(out) == [Ev(t, "backup", out) EXCEPT !.mgr = m, !.m = last_cookie_backup[m],
                                                !.files = cookie_backups[m]]
         Written == /\ cookie_backups' = [cookie_backups EXCEPT
                                            ![m] = PruneBackups(@ \cup {current_time})]
                    /\ last_cookie_backup' = [last_cookie_backup EXCEPT ![m] = current_time]
                    /\ ev' = E("written")
         Nothing(out) == /\ UNCHANGED <<cookie_backups, last_cookie_backup>>
                         /\ ev' = E(out)
         NotWritten(out) == /\ UNCHANGED cookie_backups
                            /\ last_cookie_backup' = [last_cookie_backup EXCEPT ![m] = current_time]
                            /\ ev' = E(out)
     IN
     IF BackupSkipped(current_time, last_cookie_backup[m], m)
     THEN Nothing("skipped")
     ELSE IF m = "xhs"
     THEN IF ~SessionLive(m)
          THEN Nothing("no_context")
          ELSE Written \/ Nothing("failed")
     ELSE IF ~SessionLive(m)
          THEN NotWritten("no_context")
          ELSE Written \/ NotWritten("failed")
  /\ Return(t, RV("void", <<>>, ""))
  /\ UNCHANGED <<clockVars, handleVars, login_state_file, login_state_info, is_logged_in,
                 last_health_check, restart_timestamps, browser_healthy, disconnect_seen, douyin_browser,
                 at_site, budget_log, last_browser_check>>

\* ----------------------------------------------------------- save_login_state
\* login_manager.py lines 34-61 (douyin_login_manager.py lines 34-59): the
\* record is written with login_time = now, then _backup_cookies() is awaited.
\* An error is caught and logged: open() failing leaves the old file; json.dump
\* failing on login_info, the last key written, leaves a truncated file.
SaveLoginState(t) ==
  /\ At(t, "save_login_state", "enter")
  /\ LET m == Top(t).mgr
         info == Top(t).arg
         E(out) == [Ev(t, "save_login_state", out) EXCEPT !.mgr = m, !.info = info]
     IN
     \/ /\ UNCHANGED <<login_state_file, login_state_info>>
        /\ Return(t, RV("void", <<>>, ""))
        /\ ev' = E("open_failed")
     \/ IF \A it \in StoredInfo(info) : JsonSerializable(it[2])
        THEN /\ login_state_file' = [login_state_file EXCEPT ![m] = now]
             /\ login_state_info' = [login_state_info EXCEPT ![m] =
                    FileInfo({<<it[1], JsonDecoded(it[2])>> : it \in StoredInfo(info)})]
             /\ Jump(t, [Frame("_backup_cookies", "enter") EXCEPT !.mgr = m])
             /\ ev' = E("written")
        ELSE /\ login_state_file' = [login_state_file EXCEPT ![m] = now]
             /\ login_state_info' = [login_state_info EXCEPT ![m] = Truncated]
             /\ Return(t, RV("void", <<>>, ""))
             /\ ev' = E("dump_failed")
  /\ UNCHANGED <<clockVars, handleVars, cookie_backups, last_cookie_backup, is_logged_in,
                 last_health_check, restart_timestamps, browser_healthy, disconnect_seen, douyin_browser,
                 at_site, budget_log, last_browser_check>>

\* load_login_state() awaited on its own.
LoadLoginState(t) ==
  /\ At(t, "load_login_state", "enter")
  /\ LET m == Top(t).mgr
         r == LoadResult(login_state_file[m], login_state_info[m], now)
     IN
     /\ login_state_file' = [login_state_file EXCEPT ![m] = r.file]
     /\ login_state_info' = [login_state_info EXCEPT ![m] = r.info]
     /\ Return(t, RV(IF r.found THEN "record" ELSE "null", <<>>, r.why))
     /\ ev' = [Ev(t, "load_login_state", r.why) EXCEPT
                 !.mgr = m, !.m = login_state_file[m], !.info = PyDict(r.login_info),
                 !.note = IF login_state_info[m].ok THEN "parses" ELSE "truncated"]
  /\ UNCHANGED <<clockVars, handleVars, cookie_backups, last_cookie_backup, is_logged_in,
                 last_health_check, restart_timestamps, browser_healthy, disconnect_seen, douyin_browser,
                 at_site, budget_log, last_browser_check>>

\* -------------------------------------------------------------- _safe_restart
\* Lines 220-232: note the time; save the record when logged in.
\* (mutant) an error of the teardown leaves the handler
TeardownPropagatesErrors(raised) == raised

\* Lines 236-246 and 975-987: each of browser_context.close() and
\* playwright_instance.stop() sits in its own try whose except only logs.
TeardownPropagates(raised) == FALSE

\* (mutant) the restart does not save the record of a logged-in session
SavesBeforeRestartNever(logged) == FALSE

\* Line 227: if self.is_logged_in
SavesBeforeRestart(logged) == logged

SR_Enter(t) ==
  /\ At(t, "_safe_restart", "enter")
  /\ LET f == [Top(t) EXCEPT !.ct = now, !.n = Len(restart_timestamps), !.pc = "close"] IN
     IF SavesBeforeRestart(is_logged_in)
     THEN Call(t, f, [Frame("save_login_state", "enter") EXCEPT !.arg = InfoRestart])
     ELSE Jump(t, f)
  /\ ev' = Ev(t, "sr_enter", "")
  /\ UNCHANGED <<clockVars, handleVars, storeVars, is_logged_in, last_health_check,
                 restart_timestamps, browser_healthy, disconnect_seen, douyin_browser, at_site, budget_log, last_browser_check>>

\* Lines 235-239: browser_context.close(), its error swallowed.
SR_Close(t) ==
  /\ At(t, "_safe_restart", "close")
  /\ \E raised \in BOOLEAN :
       LET E(k) == [Ev(t, k, IF ret[t].k = "none" THEN "" ELSE "after_save")
                      EXCEPT !.dc = raised]
       IN
       IF TeardownPropagates(raised)
       THEN /\ Return(t, RV("raise", MsgTargetClosed, "teardown"))
            /\ ev' = E("sr_raised")
       ELSE /\ Jump(t, [Top(t) EXCEPT !.pc = "stop"])
            /\ ev' = E("sr_close")
  /\ UNCHANGED <<clockVars, handleVars, storeVars, is_logged_in, last_health_check,
                 restart_timestamps, browser_healthy, disconnect_seen, douyin_browser, at_site, budget_log, last_browser_check>>

\* Lines 241-256: playwright_instance.stop(), its error swallowed; the handles
\* are reset; the restart is recorded; _start_browser() is awaited.
SR_Stop(t) ==
  /\ At(t, "_safe_restart", "stop")
  /\ \E raised \in BOOLEAN :
       IF TeardownPropagates(raised)
       THEN /\ Return(t, RV("raise", MsgTargetClosed, "teardown"))
            /\ ev' = [Ev(t, "sr_raised", "") EXCEPT !.dc = raised]
            /\ UNCHANGED <<handleVars, restart_timestamps>>
       ELSE /\ playwright_instance' = FALSE
            /\ browser_context' = FALSE
            /\ main_page' = FALSE
            /\ restart_timestamps' = Append(restart_timestamps, Top(t).ct)
            /\ Call(t, [Top(t) EXCEPT !.pc = "after_start"], Frame("_start_browser", "begin"))
            /\ ev' = [Ev(t, "sr_teardown", "") EXCEPT !.dc = raised]
  /\ UNCHANGED <<clockVars, storeVars, is_logged_in, last_health_check,
                 browser_healthy, disconnect_seen, douyin_browser, at_site, budget_log, last_browser_check>>

\* Lines 256-272: _start_browser() is back: its error is re-raised, else
\* auto_restore_login() is awaited.
SR_AfterStart(t) ==
  /\ At(t, "_safe_restart", "after_start")
  /\ ret[t].k # "none"
  /\ IF ret[t].k = "raise"
     THEN /\ Return(t, ret[t])
          /\ ev' = [Ev(t, "sr_return", "raise") EXCEPT !.n = Top(t).n]
          /\ budget_log' = [pure |-> FALSE, fr |-> 0]
     ELSE /\ Call(t, [Top(t) EXCEPT !.pc = "after_restore", !.ct = 0],
                  Frame("auto_restore_login", "enter"))
          /\ ev' = [Ev(t, "sr_started", "") EXCEPT !.n = Top(t).n]
          /\ UNCHANGED budget_log
  /\ UNCHANGED <<clockVars, handleVars, storeVars, is_logged_in, last_health_check,
                 restart_timestamps, browser_healthy, disconnect_seen, douyin_browser, at_site, last_browser_check>>

\* Lines 259-268: auto_restore_login() is back, its error swallowed.
SR_AfterRestore(t) ==
  /\ At(t, "_safe_restart", "after_restore")
  /\ ret[t].k # "none"
  /\ Return(t, RV("void", <<>>, ""))
  /\ ev' = [Ev(t, "sr_return", "done") EXCEPT !.n = Top(t).n, !.note = ret[t].k]
  /\ budget_log' = IF budget_log.pure
                   THEN [budget_log EXCEPT !.fr = budget_log.fr + 1]
                   ELSE budget_log
  /\ UNCHANGED <<clockVars, handleVars, storeVars, is_logged_in, last_health_check,
                 restart_timestamps, browser_healthy, disconnect_seen, douyin_browser, at_site, last_browser_check>>

\* ------------------------------------------- BrowserBasedManager, validate_login
BrowserCheckInterval == 60

\* A manager of the tools (notes, comments) awaits ensure_login(force_check).
CallEnsureLogin(t) ==
  /\ stack[t] = <<>>
  /\ \E fc \in BOOLEAN :
       stack' = [stack EXCEPT ![t] = <<[Frame("ensure_login", "enter") EXCEPT !.fc = fc]>>]
  /\ ret' = [ret EXCEPT ![t] = NoRet]
  /\ ev' = Ev(t, "call_ensure_login", "")
  /\ UNCHANGED <<clockVars, handleVars, storeVars, is_logged_in, last_health_check,
                 restart_timestamps, browser_healthy, disconnect_seen, douyin_browser, at_site,
                 budget_log, last_browser_check>>

\* base_manager.py lines 94-104: within the check interval a logged-in session
\* is answered from the flag; otherwise ensure_browser(force_check) is awaited.
EL_Enter(t) ==
  /\ At(t, "ensure_login", "enter")
  /\ LET f == Top(t)
         current_time == now
     IN
     IF ~f.fc /\ current_time - last_browser_check < BrowserCheckInterval /\ is_logged_in
     THEN /\ Return(t, RV("true", <<>>, "cached"))
          /\ ev' = Ev(t, "ensure_login_return", "cached")
     ELSE /\ Call(t, [f EXCEPT !.pc = "after", !.ct = current_time],
                  [Frame("ensure_browser", "enter") EXCEPT !.fc = f.fc])
          /\ ev' = Ev(t, "ensure_login_check", "")
  /\ UNCHANGED <<clockVars, handleVars, storeVars, is_logged_in, last_health_check,
                 restart_timestamps, browser_healthy, disconnect_seen, douyin_browser, at_site,
                 budget_log, last_browser_check>>

\* base_manager.py lines 104-114: the check is stamped; ensure_browser's
\* answer is the answer; an error is handled and answered with False.
EL_After(t) ==
  /\ At(t, "ensure_login", "after")
  /\ ret[t].k # "none"
  /\ IF ret[t].k = "raise"
     THEN /\ Return(t, RV("false", <<>>, "error"))
          /\ ev' = Ev(t, "ensure_login_return", "error")
          /\ UNCHANGED last_browser_check
     ELSE /\ last_browser_check' = Top(t).ct
          /\ Return(t, RV(IF ret[t].k = "true" THEN "true" ELSE "false", <<>>, "checked"))
          /\ ev' = [Ev(t, "ensure_login_return", "checked") EXCEPT !.note = ret[t].note]
  /\ UNCHANGED <<clockVars, handleVars, storeVars, is_logged_in, last_health_check,
                 restart_timestamps, browser_healthy, disconnect_seen, douyin_browser, at_site, budget_log>>

\* An operation wrapped by @validate_login is awaited.
CallValidated(t) ==
  /\ stack[t] = <<>>
  /\ stack' = [stack EXCEPT ![t] = <<Frame("validate_login", "enter")>>]
  /\ ret' = [ret EXCEPT ![t] = NoRet]
  /\ ev' = Ev(t, "call_validated", "")
  /\ UNCHANGED <<clockVars, handleVars, storeVars, is_logged_in, last_health_check,
                 restart_timestamps, browser_healthy, disconnect_seen, douyin_browser, at_site,
                 budget_log, last_browser_check>>

\* decorators.py line 62: ensure_browser() is awaited.
VL_Enter(t) ==
  /\ At(t, "validate_login", "enter")
  /\ Call(t, [Top(t) EXCEPT !.pc = "after"], Frame("ensure_browser", "enter"))
  /\ ev' = Ev(t, "validate_enter", "")
  /\ UNCHANGED <<clockVars, handleVars, storeVars, is_logged_in, last_health_check,
                 restart_timestamps, browser_healthy, disconnect_seen, douyin_browser, at_site,
                 budget_log, last_browser_check>>

\* decorators.py lines 62-64: a false answer raises RedBookMCPException,
\* else the wrapped operation runs.
VL_After(t) ==
  /\ At(t, "validate_login", "after")
  /\ ret[t].k # "none"
  /\ IF ret[t].k = "raise"
     THEN /\ Return(t, ret[t])
          /\ ev' = Ev(t, "validate_return", "raise")
     ELSE IF ret[t].k # "true"
     THEN /\ Return(t, RV("raise", MsgNeedLogin, "need_login"))
          /\ ev' = Ev(t, "validate_return", "rejected")
     ELSE /\ Return(t, RV("void", <<>>, "operation"))
          /\ ev' = [Ev(t, "validate_return", "operation_run") EXCEPT !.note = ret[t].note]
  /\ UNCHANGED <<clockVars, handleVars, storeVars, is_logged_in, last_health_check,
                 restart_timestamps, browser_healthy, disconnect_seen, douyin_browser, at_site,
                 budget_log, last_browser_check>>

Gate(t) == EL_Enter(t) \/ EL_After(t) \/ VL_Enter(t) \/ VL_After(t)

\* ---------------------------------------------------------------------- close
\* What close() can change of the manager and of its store.
ManagerState ==
  <<playwright_instance, browser_context, main_page, is_logged_in, browser_healthy,
    last_health_check, restart_timestamps, storeVars>>

\* A caller (the close tool, the server's shutdown) awaits close(); the frame
\* remembers the state it was called in.
CallClose(t) ==
  /\ stack[t] = <<>>
  /\ stack' = [stack EXCEPT ![t] = <<[Frame("close", "context") EXCEPT !.ts0 = ManagerState]>>]
  /\ ret' = [ret EXCEPT ![t] = NoRet]
  /\ ev' = Ev(t, "call_close", "")
  /\ UNCHANGED <<clockVars, handleVars, storeVars, is_logged_in, last_health_check,
                 restart_timestamps, browser_healthy, disconnect_seen, douyin_browser, at_site, budget_log, last_browser_check>>

\* Lines 1027-1031 and 1040-1046: the reset at the end of close() and the same
\* reset in its outer except block.
CloseReset(t, out, raised) ==
  /\ playwright_instance' = FALSE
  /\ browser_context' = FALSE
  /\ main_page' = FALSE
  /\ is_logged_in' = FALSE
  /\ browser_healthy' = FALSE
  /\ Return(t, RV("void", <<>>, out))
  /\ ev' = [Ev(t, "close_return", out) EXCEPT !.dc = raised, !.ts0 = Top(t).ts0,
                !.note = IF Top(t).fc THEN "teardown_raised" ELSE ""]

\* Lines 975-980: browser_context.close() when there is a context.
CLS_Context(t) ==
  /\ At(t, "close", "context")
  /\ \E raised \in (IF browser_context THEN BOOLEAN ELSE {FALSE}) :
       IF TeardownPropagates(raised)
       THEN CloseReset(t, "failed", raised)
       ELSE /\ Jump(t, [Top(t) EXCEPT !.pc = "stop", !.fc = @ \/ raised])
            /\ ev' = [Ev(t, "close_context", "") EXCEPT !.dc = raised]
            /\ UNCHANGED <<handleVars, is_logged_in, browser_healthy>>
  /\ UNCHANGED <<clockVars, storeVars, last_health_check, restart_timestamps,
                 disconnect_seen, douyin_browser, at_site, budget_log, last_browser_check>>

\* Lines 983-988: playwright_instance.stop() when there is a driver.
CLS_Stop(t) ==
  /\ At(t, "close", "stop")
  /\ \E raised \in (IF playwright_instance THEN BOOLEAN ELSE {FALSE}) :
       IF TeardownPropagates(raised)
       THEN CloseReset(t, "failed", raised)
       ELSE /\ Jump(t, [Top(t) EXCEPT !.pc = "reset", !.fc = @ \/ raised])
            /\ ev' = [Ev(t, "close_stop", "") EXCEPT !.dc = raised]
            /\ UNCHANGED <<handleVars, is_logged_in, browser_healthy>>
  /\ UNCHANGED <<clockVars, storeVars, last_health_check, restart_timestamps,
                 disconnect_seen, douyin_browser, at_site, budget_log, last_browser_check>>

\* Lines 990-1037: the leftover processes and the lock files are cleaned (an
\* error here is logged, or lands in the outer except), then the reset.
CLS_Reset(t) ==
  /\ At(t, "close", "reset")
  /\ \E failed \in BOOLEAN : CloseReset(t, IF failed THEN "failed" ELSE "closed", failed)
  /\ UNCHANGED <<clockVars, storeVars, last_health_check, restart_timestamps,
                 disconnect_seen, douyin_browser, at_site, budget_log, last_browser_check>>

Close(t) == CLS_Context(t) \/ CLS_Stop(t) \/ CLS_Reset(t)

\* ------------------------------------------------------------- _start_browser
\* "ProcessSingleton" in error_msg or "SingletonLock" in error_msg  (line 390)
IsSingletonError(msg) ==
  Contains(msg, KwProcessSingleton) \/ Contains(msg, KwSingletonLock)

LaunchErrors == {MsgSingleton, MsgLaunchFailed, MsgTargetClosed}

\* The verdict of line 390 on each error a launch can raise.
LaunchErrorSingleton == [m \in LaunchErrors |-> IsSingletonError(m)]

\* Lines 276-281: _handle_singleton_conflict() (kills orphans, removes locks,
\* sleeps; its errors are caught inside).
\* (ghost) ts0 of the frame: the restart record when the bring-up began;
\* n of a top-level ensure_browser frame: the bring-ups begun during the call.
BringUpBegun(s) ==
  IF s[1].fn = "ensure_browser" THEN [s EXCEPT ![1].n = @ + 1] ELSE s

SB_Begin(t) ==
  /\ At(t, "_start_browser", "begin")
  /\ stack' = [stack EXCEPT ![t] = BringUpBegun(
                  SetTop(stack[t], [Top(t) EXCEPT !.pc = "loop", !.n = 0,
                                                  !.ts0 = restart_timestamps]))]
  /\ ret' = [ret EXCEPT ![t] = NoRet]
  /\ ev' = Ev(t, "sb_cleanup", "")
  /\ UNCHANGED <<clockVars, handleVars, storeVars, is_logged_in, last_health_check,
                 restart_timestamps, browser_healthy, disconnect_seen, douyin_browser, at_site, budget_log, last_browser_check>>

\* Lines 385-416: the except block of one launch attempt whose error `msg` is
\* raised with restart_count = n.
SB_Except(t, n, msg) ==
  IF LaunchErrorSingleton[msg]
  THEN /\ Jump(t, [Top(t) EXCEPT !.pc = "loop", !.n = n])
       /\ ev' = [Ev(t, "sb_failed", "singleton") EXCEPT !.n = n]
       /\ UNCHANGED handleVars
  ELSE /\ playwright_instance' = FALSE
       /\ browser_context' = FALSE
       /\ main_page' = FALSE
       /\ IF n >= MaxStartAttempts
          THEN /\ Return(t, RV("raise", msg, "start_failed"))
               /\ ev' = [Ev(t, "sb_return", "raise") EXCEPT !.n = n, !.ts0 = Top(t).ts0]
          ELSE /\ Jump(t, [Top(t) EXCEPT !.pc = "loop", !.n = n])
               /\ ev' = [Ev(t, "sb_failed", "other") EXCEPT !.n = n]

\* (mutant) the loop test lets a fourth attempt through
StartAttemptsLeftOneMore(n) == n <= MaxStartAttempts

\* while restart_count < max_restart_attempts  (line 283)
StartAttemptsLeft(n) == n < MaxStartAttempts

\* Lines 283-289 and 418-419: the loop test, restart_count += 1, and
\* async_playwright().start().
SB_StartDriver(t) ==
  /\ At(t, "_start_browser", "loop")
  /\ LET n == Top(t).n IN
     IF ~StartAttemptsLeft(n)
     THEN /\ Return(t, RV("raise", MsgStartFinal, "start_exhausted"))
          /\ ev' = [Ev(t, "sb_return", "raise") EXCEPT !.n = n, !.ts0 = Top(t).ts0]
          /\ UNCHANGED handleVars
     ELSE \/ /\ playwright_instance' = TRUE
             /\ UNCHANGED <<browser_context, main_page>>
             /\ Jump(t, [Top(t) EXCEPT !.pc = "launch", !.n = n + 1])
             /\ ev' = [Ev(t, "sb_driver", "") EXCEPT !.n = n + 1, !.dc = playwright_instance]
          \/ SB_Except(t, n + 1, MsgLaunchFailed)
  /\ UNCHANGED <<clockVars, storeVars, is_logged_in, last_health_check,
                 restart_timestamps, browser_healthy, disconnect_seen, douyin_browser, at_site, budget_log, last_browser_check>>

\* Lines 327-383: launch_persistent_context, the page, the stealth scripts;
\* on success the bring-up is recorded in restart_timestamps.
SB_Launch(t) ==
  /\ At(t, "_start_browser", "launch")
  /\ \/ /\ browser_context' = TRUE
        /\ main_page' = TRUE
        /\ UNCHANGED playwright_instance
        /\ at_site' = FALSE
        /\ browser_healthy' = TRUE
        /\ UNCHANGED disconnect_seen
        /\ restart_timestamps' = Append(restart_timestamps, now)
        /\ budget_log' = IF Len(stack[t]) > 1 /\ stack[t][Len(stack[t]) - 1].fn = "_safe_restart"
                         THEN budget_log
                         ELSE [pure |-> FALSE, fr |-> 0]
        /\ Return(t, RV("void", <<>>, ""))
        /\ ev' = [Ev(t, "sb_return", "started") EXCEPT !.n = Top(t).n, !.ts0 = Top(t).ts0]
     \/ /\ \E msg \in LaunchErrors : SB_Except(t, Top(t).n, msg)
        /\ UNCHANGED <<at_site, browser_healthy, disconnect_seen, douyin_browser, restart_timestamps, budget_log>>
  /\ UNCHANGED <<clockVars, storeVars, douyin_browser, is_logged_in, last_health_check, last_browser_check>>


\* --------------------------------------------------------- auto_restore_login
DyFrame(fn, pc) == [Frame(fn, pc) EXCEPT !.mgr = "douyin"]

\* (mutant) the restore goes on whatever load_login_state returned
RestoreAttemptedAlways(r) == TRUE

\* if not login_state: return False
RestoreAttempted(r) == r.found

\* login_manager.py lines 163-178 and douyin_login_manager.py lines 209-217,
\* with load_login_state and clear_login_state: no record, or an expired one
\* (deleted here), returns False; else the manager's ensure_browser() is
\* awaited.
AR_Enter(t) ==
  /\ At(t, "auto_restore_login", "enter")
  /\ LET m == Top(t).mgr
         r == LoadResult(login_state_file[m], login_state_info[m], now)
         E(k, out) == [Ev(t, k, out) EXCEPT !.m = login_state_file[m], !.mgr = m, !.note = "load"]
     IN
     /\ login_state_file' = [login_state_file EXCEPT ![m] = r.file]
     /\ login_state_info' = [login_state_info EXCEPT ![m] = r.info]
     /\ IF ~RestoreAttempted(r)
        THEN /\ Return(t, RV("false", <<>>, IF r.why = "absent" THEN "no_record" ELSE r.why))
             /\ ev' = E("ar_return", IF r.why = "absent" THEN "no_record" ELSE r.why)
        ELSE /\ IF m = "xhs"
                THEN Call(t, [Top(t) EXCEPT !.pc = "after_ensure"],
                          Frame("ensure_browser", "enter"))
                ELSE Call(t, [Top(t) EXCEPT !.pc = "dy_ensured"],
                          DyFrame("douyin.ensure_browser", "enter"))
             /\ ev' = E("ar_loaded", r.why)
  /\ UNCHANGED <<clockVars, handleVars, cookie_backups, last_cookie_backup, is_logged_in,
                 last_health_check, restart_timestamps, browser_healthy, disconnect_seen,
                 douyin_browser, at_site, budget_log, last_browser_check>>

\* login_manager.py lines 178-181: ensure_browser() is back, its result is
\* not looked at; check_login_status(force_check=True) is awaited.
AR_AfterEnsure(t) ==
  /\ At(t, "auto_restore_login", "after_ensure")
  /\ ret[t].k # "none"
  /\ IF ret[t].k = "raise"
     THEN /\ Return(t, RV("false", <<>>, "error"))
          /\ ev' = Ev(t, "ar_return", "error")
     ELSE /\ Call(t, [Top(t) EXCEPT !.pc = "after_check"], Frame("check_login_status", "enter"))
          /\ ev' = Ev(t, "ar_ensured", ret[t].k)
  /\ UNCHANGED <<clockVars, handleVars, storeVars, is_logged_in, last_health_check,
                 restart_timestamps, browser_healthy, disconnect_seen, douyin_browser, at_site, budget_log, last_browser_check>>

\* login_manager.py lines 181-191.
AR_AfterCheck(t) ==
  /\ At(t, "auto_restore_login", "after_check")
  /\ ret[t].k # "none"
  /\ LET k == IF ret[t].k = "true" THEN "true" ELSE "false" IN
     /\ Return(t, RV(k, <<>>, "checked"))
     /\ ev' = [Ev(t, "ar_return", k) EXCEPT !.n = Top(t).n]
  /\ UNCHANGED <<clockVars, handleVars, storeVars, is_logged_in, last_health_check,
                 restart_timestamps, browser_healthy, disconnect_seen, douyin_browser, at_site, budget_log, last_browser_check>>

\* --------------------------------------------------------- check_login_status
\* login_manager.py lines 116-126 with force_check=True (its only use).
CL_Enter(t) ==
  /\ At(t, "check_login_status", "enter")
  /\ IF ~main_page
     THEN Call(t, [Top(t) EXCEPT !.pc = "url"], Frame("ensure_browser", "enter"))
     ELSE Jump(t, [Top(t) EXCEPT !.pc = "url"])
  /\ ev' = Ev(t, "cl_enter", "")
  /\ UNCHANGED <<clockVars, handleVars, storeVars, is_logged_in, last_health_check,
                 restart_timestamps, browser_healthy, disconnect_seen, douyin_browser, at_site, budget_log, last_browser_check>>

\* login_manager.py lines 129-131: main_page.url (an AttributeError on None is
\* caught at line 153), then goto(home) unless the page is on the site.
CL_Url(t) ==
  /\ At(t, "check_login_status", "url")
  /\ IF ret[t].k = "raise" \/ ~main_page
     THEN /\ Return(t, RV("false", <<>>, "error"))
          /\ ev' = Ev(t, "cl_return", "error")
     ELSE IF ~at_site
     THEN /\ Call(t, [Top(t) EXCEPT !.pc = "query"], Frame("goto", "enter"))
          /\ ev' = Ev(t, "cl_goto", "")
     ELSE /\ Jump(t, [Top(t) EXCEPT !.pc = "query"])
          /\ ev' = Ev(t, "cl_on_site", "")
  /\ UNCHANGED <<clockVars, handleVars, storeVars, is_logged_in, last_health_check,
                 restart_timestamps, browser_healthy, disconnect_seen, douyin_browser, at_site, budget_log, last_browser_check>>

\* login_manager.py lines 134-155: the login button is looked for; is_logged_in
\* is set from it (_update_last_activity rewrites last_activity only).
CL_Query(t) ==
  /\ At(t, "check_login_status", "query")
  /\ IF ret[t].k = "raise" \/ ~main_page
     THEN /\ Return(t, RV("false", <<>>, "error"))
          /\ ev' = Ev(t, "cl_return", "error")
          /\ UNCHANGED is_logged_in
     ELSE \/ /\ Return(t, RV("false", <<>>, "error"))   \* query_selector_all raised
             /\ ev' = Ev(t, "cl_return", "error")
             /\ UNCHANGED is_logged_in
          \/ \E logged \in BOOLEAN :
               /\ is_logged_in' = logged
               /\ Return(t, RV(IF logged THEN "true" ELSE "false", <<>>, "queried"))
               /\ ev' = Ev(t, "cl_return", IF logged THEN "true" ELSE "false")
  /\ UNCHANGED <<clockVars, handleVars, storeVars, last_health_check,
                 restart_timestamps, browser_healthy, disconnect_seen, douyin_browser, at_site, budget_log, last_browser_check>>


\* ------------------------------------------------------------------------ goto
GotoMaxRetries == 2

KwTimeout == <<"t","i","m","e","o","u","t">>
KwNavigation == <<"n","a","v","i","g","a","t","i","o","n">>
MsgTimeout == <<"T","i","m","e","o","u","t"," ","6","0","s">>
MsgNavigation == <<"N","a","v","i","g","a","t","i","o","n"," ","e","r","r">>
MsgNoneType == <<"N","o","n","e","T","y","p","e">>

NavErrors == {MsgTimeout, MsgTargetClosed, MsgDisconnected, MsgNavigation, MsgLaunchFailed}

\* Lines 873-896: the class goto gives an error by its text.
NavClass(msg) ==
  IF Contains(Lower(msg), KwTimeout) THEN "timeout"
  ELSE IF Contains(Lower(msg), KwClosed) \/ Contains(Lower(msg), KwDisconnected)
       THEN "disconnected"
  ELSE IF Contains(Lower(msg), KwNavigation) THEN "navigation"
  ELSE "other"

\* The class of each error a navigation can raise.
NavErrorClass == [m \in NavErrors \cup {MsgNoneType} |-> NavClass(m)]

\* A caller awaits goto(url) (max_retries = 2).
CallGoto(t) ==
  /\ stack[t] = <<>>
  /\ stack' = [stack EXCEPT ![t] = <<Frame("goto", "enter")>>]
  /\ ret' = [ret EXCEPT ![t] = NoRet]
  /\ ev' = Ev(t, "call_goto", "")
  /\ UNCHANGED <<clockVars, handleVars, storeVars, is_logged_in, last_health_check,
                 restart_timestamps, browser_healthy, disconnect_seen, douyin_browser, at_site, budget_log, last_browser_check>>

\* Lines 854-857: ensure_browser() first when the session is marked unhealthy.
G_Enter(t) ==
  /\ At(t, "goto", "enter")
  /\ IF ~browser_healthy
     THEN Call(t, [Top(t) EXCEPT !.pc = "attempt", !.n = 0], Frame("ensure_browser", "enter"))
     ELSE Jump(t, [Top(t) EXCEPT !.pc = "attempt", !.n = 0])
  /\ ev' = Ev(t, "goto_enter", IF browser_healthy THEN "healthy" ELSE "ensure")
  /\ UNCHANGED <<clockVars, handleVars, storeVars, is_logged_in, last_health_check,
                 restart_timestamps, browser_healthy, disconnect_seen, douyin_browser, at_site, budget_log, last_browser_check>>

\* (mutant) one retry too many
GotoRetryOneMore(attempt) == attempt <= GotoMaxRetries

\* attempt < max_retries   (lines 875, 882, 888, 894)
GotoRetryAllowed(attempt) == attempt < GotoMaxRetries

\* Lines 868-901: the except block of attempt n (0-based) for error `msg`.
G_Except(t, n, msg) ==
  LET cls == IF msg \in DOMAIN NavErrorClass THEN NavErrorClass[msg] ELSE NavClass(msg)
      E(out) == [Ev(t, "goto_failed", out) EXCEPT !.note = cls, !.n = n]
  IN
  /\ browser_healthy' = IF cls = "disconnected" THEN FALSE ELSE browser_healthy
  /\ disconnect_seen' = IF cls = "disconnected" THEN TRUE ELSE disconnect_seen
  /\ UNCHANGED douyin_browser
  /\ IF GotoRetryAllowed(n)
     THEN IF cls = "disconnected"
          THEN /\ Call(t, [Top(t) EXCEPT !.pc = "attempt", !.n = n + 1],
                          [Frame("ensure_browser", "enter") EXCEPT !.fc = TRUE])
               /\ ev' = E("ensure")
          ELSE /\ Jump(t, [Top(t) EXCEPT !.pc = "attempt", !.n = n + 1])
               /\ ev' = E("retry")
     ELSE /\ Return(t, RV("false", <<>>, "exhausted"))
          /\ ev' = E("exhausted")

\* Lines 857-866: one attempt: main_page.goto(url), the wait, then
\* _handle_login_popup().  An ensure_browser() awaited at line 855 or 883
\* is outside the try: its error would leave goto.
G_Attempt(t) ==
  /\ At(t, "goto", "attempt")
  /\ LET n == Top(t).n IN
     IF ret[t].k = "raise"
     THEN /\ Return(t, ret[t])
          /\ ev' = Ev(t, "goto_return", "raise")
          /\ UNCHANGED <<browser_healthy, disconnect_seen, douyin_browser, at_site>>
     ELSE IF ~main_page
     THEN G_Except(t, n, MsgNoneType) /\ UNCHANGED at_site
     ELSE \/ /\ at_site' \in BOOLEAN
             /\ Call(t, [Top(t) EXCEPT !.pc = "after_popup"], Frame("_handle_login_popup", "enter"))
             /\ ev' = [Ev(t, "goto_loaded", "") EXCEPT !.n = n]
             /\ UNCHANGED <<browser_healthy, disconnect_seen, douyin_browser>>
          \/ /\ \E msg \in NavErrors : G_Except(t, n, msg)
             /\ UNCHANGED at_site
  /\ UNCHANGED <<clockVars, handleVars, storeVars, is_logged_in, last_health_check,
                 restart_timestamps, budget_log, last_browser_check>>

\* Lines 863-866: _handle_login_popup() is back (it raises nothing).
G_AfterPopup(t) ==
  /\ At(t, "goto", "after_popup")
  /\ ret[t].k # "none"
  /\ IF ret[t].k = "raise"
     THEN G_Except(t, Top(t).n, ret[t].msg)
     ELSE /\ Return(t, RV("true", <<>>, "loaded"))
          /\ ev' = [Ev(t, "goto_return", "true") EXCEPT !.n = Top(t).n]
          /\ UNCHANGED <<browser_healthy, disconnect_seen, douyin_browser>>
  /\ UNCHANGED <<clockVars, handleVars, storeVars, is_logged_in, last_health_check,
                 restart_timestamps, at_site, budget_log, last_browser_check>>

\* --------------------------------------------------------- _handle_login_popup
\* Lines 951-963: a login button on the page and not is_logged_in: login().
HP_Enter(t) ==
  /\ At(t, "_handle_login_popup", "enter")
  /\ IF ~main_page
     THEN /\ Return(t, RV("false", <<>>, "error"))
          /\ ev' = Ev(t, "popup_return", "error")
     ELSE \/ /\ Return(t, RV("false", <<>>, "error"))    \* query_selector_all raised
             /\ ev' = Ev(t, "popup_return", "error")
          \/ \E button \in BOOLEAN :
               IF button /\ ~is_logged_in
               THEN /\ Call(t, [Top(t) EXCEPT !.pc = "after_login"], Frame("login", "enter"))
                    /\ ev' = Ev(t, "popup_login", "")
               ELSE /\ Return(t, RV("false", <<>>, "no_popup"))
                    /\ ev' = Ev(t, "popup_return", "no_popup")
  /\ UNCHANGED <<clockVars, handleVars, storeVars, is_logged_in, last_health_check,
                 restart_timestamps, browser_healthy, disconnect_seen, douyin_browser, at_site, budget_log, last_browser_check>>

HP_AfterLogin(t) ==
  /\ At(t, "_handle_login_popup", "after_login")
  /\ ret[t].k # "none"
  /\ Return(t, RV(IF ret[t].k = "raise" THEN "false" ELSE "true", <<>>, "handled"))
  /\ ev' = Ev(t, "popup_return", "handled")
  /\ UNCHANGED <<clockVars, handleVars, storeVars, is_logged_in, last_health_check,
                 restart_timestamps, browser_healthy, disconnect_seen, douyin_browser, at_site, budget_log, last_browser_check>>


\* ----------------------------------------------------------------- smart_login
\* The result messages, one token per character of the source's text.
ResRestored == <<"yi3","zi4","dong4","hui1","fu4","deng1","lu4","zhuang4","tai4">>
ResSuccess == <<"deng1","lu4","cheng2","gong1","!">>
ResTimeout == <<"deng1","lu4","deng3","dai4","chao1","shi2",".","qing3","chong2","shi4",
                "huo4","jian3","cha2","wang3","luo4","lian2","jie1",".">>
ResAlready == <<"yi3","deng1","lu4","xiao3","hong2","shu1","zhang4","hao4">>
ResErrorPrefix == <<"deng1","lu4","guo4","cheng2'","chu1","cuo4",":"," ">>
KwSuccess == <<"cheng2","gong1">>
KwLoggedIn == <<"yi3","deng1","lu4">>
KwRestored == <<"yi3","zi4","dong4","hui1","fu4">>

MaxWaitTime == 180
WaitInterval == 5

\* login_manager.py lines 262-264: f"... {str(e)}"
LoginError(t, msg) ==
  /\ Return(t, RV("str", ResErrorPrefix \o msg, "error"))
  /\ ev' = Ev(t, "smart_login_return", "error")

\* (ghost) the runs of auto_restore_login in progress when the wait loop is
\* entered are marked (n = 1 in their frames).
SeenInteractive(s) ==
  [i \in 1..Len(s) |-> IF s[i].fn = "auto_restore_login" THEN [s[i] EXCEPT !.n = 1] ELSE s[i]]

\* (ghost) a top-level login() counts in its frame the entries into the
\* wait loop made on its behalf.
WaitBegun(s) ==
  IF s[1].fn = "login" THEN [s EXCEPT ![1].n = @ + 1] ELSE s

\* login_manager.py lines 199-202.
S_Enter(t) ==
  /\ At(t, "smart_login", "enter")
  /\ Call(t, [Top(t) EXCEPT !.pc = "after_restore"], Frame("auto_restore_login", "enter"))
  /\ ev' = Ev(t, "smart_login_enter", "")
  /\ UNCHANGED <<clockVars, handleVars, storeVars, is_logged_in, last_health_check,
                 restart_timestamps, browser_healthy, disconnect_seen, douyin_browser, at_site, budget_log, last_browser_check>>

\* login_manager.py lines 202-209.
S_AfterRestore(t) ==
  /\ At(t, "smart_login", "after_restore")
  /\ ret[t].k # "none"
  /\ IF ret[t].k = "raise"
     THEN LoginError(t, ret[t].msg)
     ELSE IF ret[t].k = "true"
     THEN /\ Return(t, RV("str", ResRestored, "restored"))
          /\ ev' = Ev(t, "smart_login_return", "restored")
     ELSE /\ Call(t, [Top(t) EXCEPT !.pc = "page"], Frame("ensure_browser", "enter"))
          /\ ev' = Ev(t, "smart_login_manual", "")
  /\ UNCHANGED <<clockVars, handleVars, storeVars, is_logged_in, last_health_check,
                 restart_timestamps, browser_healthy, disconnect_seen, douyin_browser, at_site, budget_log, last_browser_check>>

\* login_manager.py lines 212-214: main_page.goto(home) unless on the site.
S_Page(t) ==
  /\ At(t, "smart_login", "page")
  /\ ret[t].k # "none"
  /\ IF ret[t].k = "raise"
     THEN LoginError(t, ret[t].msg) /\ UNCHANGED at_site
     ELSE IF ~main_page
     THEN LoginError(t, MsgNoneType) /\ UNCHANGED at_site
     ELSE IF at_site
     THEN /\ Jump(t, [Top(t) EXCEPT !.pc = "find"])
          /\ ev' = Ev(t, "smart_login_page", "on_site")
          /\ UNCHANGED at_site
     ELSE \/ /\ at_site' \in BOOLEAN
             /\ Jump(t, [Top(t) EXCEPT !.pc = "find"])
             /\ ev' = Ev(t, "smart_login_page", "loaded")
          \/ /\ \E msg \in NavErrors : LoginError(t, msg)
             /\ UNCHANGED at_site
  /\ UNCHANGED <<clockVars, handleVars, storeVars, is_logged_in, last_health_check,
                 restart_timestamps, browser_healthy, disconnect_seen, douyin_browser, budget_log, last_browser_check>>

\* login_manager.py lines 217-229 and 253-259: the login button is looked for
\* and clicked; without one the user counts as logged in.
S_Find(t) ==
  /\ At(t, "smart_login", "find")
  /\ IF ~main_page
     THEN LoginError(t, MsgNoneType) /\ UNCHANGED is_logged_in
     ELSE \/ /\ \E msg \in {MsgTargetClosed, MsgTimeout} : LoginError(t, msg)
             /\ UNCHANGED is_logged_in
          \/ /\ stack' = [stack EXCEPT ![t] =
                            WaitBegun(SeenInteractive(
                              SetTop(stack[t], [Top(t) EXCEPT !.pc = "wait", !.n = 0])))]
             /\ ret' = [ret EXCEPT ![t] = NoRet]
             /\ ev' = Ev(t, "smart_login_clicked", "")
             /\ UNCHANGED is_logged_in
          \/ /\ is_logged_in' = TRUE
             /\ Call(t, [Top(t) EXCEPT !.pc = "already"],
                     [Frame("save_login_state", "enter") EXCEPT !.arg = InfoAlready])
             /\ ev' = Ev(t, "smart_login_no_button", "")
  /\ UNCHANGED <<clockVars, handleVars, storeVars, last_health_check,
                 restart_timestamps, browser_healthy, disconnect_seen, douyin_browser, at_site, budget_log, last_browser_check>>

\* login_manager.py line 260.
S_Already(t) ==
  /\ At(t, "smart_login", "already")
  /\ ret[t].k # "none"
  /\ Return(t, RV("str", ResAlready, "already"))
  /\ ev' = Ev(t, "smart_login_return", "already")
  /\ UNCHANGED <<clockVars, handleVars, storeVars, is_logged_in, last_health_check,
                 restart_timestamps, browser_healthy, disconnect_seen, douyin_browser, at_site, budget_log, last_browser_check>>

\* login_manager.py lines 231-252: one poll of the wait loop (n = waited_time).
S_Wait(t) ==
  /\ At(t, "smart_login", "wait")
  /\ LET waited == Top(t).n IN
     IF waited < MaxWaitTime
     THEN IF ~main_page
          THEN LoginError(t, MsgNoneType) /\ UNCHANGED is_logged_in
          ELSE \/ /\ \E msg \in {MsgTargetClosed, MsgTimeout} : LoginError(t, msg)
                  /\ UNCHANGED is_logged_in
               \/ /\ is_logged_in' = TRUE
                  /\ Call(t, [Top(t) EXCEPT !.pc = "success", !.n = 0],
                          [Frame("save_login_state", "enter") EXCEPT !.arg = InfoManual])
                  /\ ev' = [Ev(t, "smart_login_user_done", "") EXCEPT !.n = waited]
               \/ /\ Jump(t, [Top(t) EXCEPT !.n = waited + WaitInterval])
                  /\ ev' = [Ev(t, "smart_login_poll", "") EXCEPT !.n = waited]
                  /\ UNCHANGED is_logged_in
     ELSE /\ Return(t, RV("str", ResTimeout, "timeout"))
          /\ ev' = [Ev(t, "smart_login_return", "timeout") EXCEPT
                      !.n = waited, !.m = login_state_file["xhs"], !.li = is_logged_in]
          /\ UNCHANGED is_logged_in
  /\ UNCHANGED <<clockVars, handleVars, storeVars, last_health_check,
                 restart_timestamps, browser_healthy, disconnect_seen, douyin_browser, at_site, budget_log, last_browser_check>>

\* login_manager.py lines 243-246.
S_Success(t) ==
  /\ At(t, "smart_login", "success")
  /\ ret[t].k # "none"
  /\ Return(t, RV("str", ResSuccess, "success"))
  /\ ev' = Ev(t, "smart_login_return", "success")
  /\ UNCHANGED <<clockVars, handleVars, storeVars, is_logged_in, last_health_check,
                 restart_timestamps, browser_healthy, disconnect_seen, douyin_browser, at_site, budget_log, last_browser_check>>

\* ----------------------------------------------------------------------- login
\* (mutant) any result that speaks of the login counts as a success
LoginSucceededLoose(result) == Contains(result, <<"deng1", "lu4">>)

\* Line 830: the result's text decides.
LoginSucceeded(result) ==
  Contains(result, KwSuccess) \/ Contains(result, KwLoggedIn) \/ Contains(result, KwRestored)

\* A caller (the login tool) awaits login().
CallLogin(t) ==
  /\ stack[t] = <<>>
  /\ stack' = [stack EXCEPT ![t] = <<Frame("login", "enter")>>]
  /\ ret' = [ret EXCEPT ![t] = NoRet]
  /\ ev' = Ev(t, "call_login", "")
  /\ UNCHANGED <<clockVars, handleVars, storeVars, is_logged_in, last_health_check,
                 restart_timestamps, browser_healthy, disconnect_seen, douyin_browser, at_site, budget_log, last_browser_check>>

\* Lines 823-827.
L_Enter(t) ==
  /\ At(t, "login", "enter")
  /\ Call(t, [Top(t) EXCEPT !.pc = "after"], Frame("smart_login", "enter"))
  /\ ev' = Ev(t, "login_enter", "")
  /\ UNCHANGED <<clockVars, handleVars, storeVars, is_logged_in, last_health_check,
                 restart_timestamps, browser_healthy, disconnect_seen, douyin_browser, at_site, budget_log, last_browser_check>>

\* Lines 829-843.
L_After(t) ==
  /\ At(t, "login", "after")
  /\ ret[t].k # "none"
  /\ LET ok == ret[t].k # "raise" /\ LoginSucceeded(ret[t].msg) IN
     /\ is_logged_in' = ok
     /\ Return(t, RV("str", ret[t].msg, ret[t].note))
     /\ ev' = [Ev(t, "login_return", IF ok THEN "logged_in" ELSE "not_logged_in")
                 EXCEPT !.note = ret[t].note]
  /\ UNCHANGED <<clockVars, handleVars, storeVars, last_health_check,
                 restart_timestamps, browser_healthy, disconnect_seen, douyin_browser, at_site, budget_log, last_browser_check>>

\* ------------------------------------------------------ DouyinBrowserManager
xhsVars == <<handleVars, is_logged_in, last_health_check, restart_timestamps,
             browser_healthy, disconnect_seen, at_site, budget_log>>

DyEv(t, k, out) == [Ev(t, k, out) EXCEPT !.mgr = "douyin"]

\* The dict close_browser passes (douyin_browser.py lines 138-141).
InfoClose == PyDict({<<"close_reason", <<"str", "browser_close">>>>})

\* douyin_browser.py lines 35-65: forced, or a handle missing, or the page
\* closed: start_browser(); True in every case.
DY_EB_Enter(t) ==
  /\ At(t, "douyin.ensure_browser", "enter")
  /\ LET d == douyin_browser
         Start == Call(t, [Top(t) EXCEPT !.pc = "started"], DyFrame("douyin.start_browser", "close"))
     IN
     IF Top(t).fc \/ ~d.browser \/ ~d.context \/ ~d.main_page
     THEN Start /\ ev' = DyEv(t, "dy_eb_enter", IF Top(t).fc THEN "forced" ELSE "not_up")
     ELSE IF d.closed
     THEN Start /\ ev' = DyEv(t, "dy_eb_enter", "page_closed")
     ELSE Return(t, RV("true", <<>>, "up")) /\ ev' = DyEv(t, "dy_eb_return", "up")
  /\ UNCHANGED <<clockVars, xhsVars, storeVars, douyin_browser, last_browser_check>>

\* Lines 42-43, 52-53: start_browser() is back, its result is not looked at.
DY_EB_Started(t) ==
  /\ At(t, "douyin.ensure_browser", "started")
  /\ Return(t, RV("true", <<>>, ret[t].k))
  /\ ev' = [DyEv(t, "dy_eb_return", "started") EXCEPT !.note = ret[t].k]
  /\ UNCHANGED <<clockVars, xhsVars, storeVars, douyin_browser, last_browser_check>>

\* start_browser, line 71, into close_browser lines 134-143: the record is
\* saved when logged in.
DY_SB_Close(t) ==
  /\ At(t, "douyin.start_browser", "close")
  /\ IF douyin_browser.is_logged_in
     THEN Call(t, [Top(t) EXCEPT !.pc = "launch"],
               [DyFrame("save_login_state", "enter") EXCEPT !.arg = InfoClose])
     ELSE Jump(t, [Top(t) EXCEPT !.pc = "launch"])
  /\ ev' = DyEv(t, "dy_sb_close", "")
  /\ UNCHANGED <<clockVars, xhsVars, storeVars, douyin_browser, last_browser_check>>

\* The awaits of start_browser that set a handle (lines 77, 80, 91, 98).
DyLaunchSteps == 4

\* close_browser lines 146-236 (every handle None, is_logged_in False), then
\* start_browser lines 74-104: playwright, browser, a new context with
\* storage_state=None, a new page; an error at any of them is logged and
\* False returned with the handles set so far.
DY_SB_Launch(t) ==
  /\ At(t, "douyin.start_browser", "launch")
  /\ \E done \in 0..DyLaunchSteps :
       /\ douyin_browser' = [playwright |-> done >= 1, browser |-> done >= 2,
                             context |-> done >= 3, main_page |-> done >= 4,
                             is_logged_in |-> FALSE, closed |-> FALSE, at_site |-> FALSE,
                             cookies |-> 0]
       /\ Return(t, RV(IF done = DyLaunchSteps THEN "true" ELSE "false", <<>>, ""))
       /\ ev' = [DyEv(t, "dy_launch", IF done = DyLaunchSteps THEN "true" ELSE "false")
                   EXCEPT !.n = done]
  /\ UNCHANGED <<clockVars, xhsVars, storeVars, last_browser_check>>

\* The user closes the browser window.
DY_PageCloses ==
  /\ douyin_browser.main_page
  /\ ~douyin_browser.closed
  /\ douyin_browser' = [douyin_browser EXCEPT !.closed = TRUE]
  /\ ev' = DyEv(0, "dy_page_closes", "")
  /\ UNCHANGED <<clockVars, xhsVars, storeVars, stack, ret, last_browser_check>>

\* douyin_browser.py lines 106-121: ensure_browser(), then main_page.goto.
DY_G_Enter(t) ==
  /\ At(t, "douyin.goto", "enter")
  /\ Call(t, [Top(t) EXCEPT !.pc = "load"], DyFrame("douyin.ensure_browser", "enter"))
  /\ ev' = DyEv(t, "dy_goto_enter", "")
  /\ UNCHANGED <<clockVars, xhsVars, storeVars, douyin_browser, last_browser_check>>

\* Lines 115-121: the navigation; its error is logged and raised again.
DY_G_Load(t) ==
  /\ At(t, "douyin.goto", "load")
  /\ LET d == douyin_browser
         Raise == /\ Return(t, RV("raise", <<>>, ""))
                  /\ ev' = [DyEv(t, "dy_goto", "raise") EXCEPT !.m = d.cookies]
                  /\ UNCHANGED douyin_browser
     IN
     IF ~d.main_page \/ d.closed
     THEN Raise
     ELSE \/ Raise
          \/ /\ douyin_browser' = [d EXCEPT !.at_site = TRUE]
             /\ Return(t, RV("void", <<>>, ""))
             /\ ev' = [DyEv(t, "dy_goto", "loaded") EXCEPT !.m = d.cookies]
  /\ UNCHANGED <<clockVars, xhsVars, storeVars, last_browser_check>>

\* -------------------------------------------------------- DouyinLoginManager
\* The newest snapshot of the archive: sorted(glob(...))[-1].
LatestBackup(files) == CHOOSE f \in files : \A g \in files : g <= f

\* douyin_login_manager.py lines 217-223: ensure_browser() is back, its result
\* not looked at; _restore_cookies() (lines 236-255) adds the newest snapshot
\* to the context, load_cookies (douyin_browser.py lines 251-265) doing
\* nothing without a context; check_login_status(force_check=True) is awaited.
\* (ghost) n of the frame: the snapshot this run added.
DY_AR_Ensured(t) ==
  /\ At(t, "auto_restore_login", "dy_ensured")
  /\ LET d == douyin_browser
         files == cookie_backups["douyin"]
         Go(out, added) ==
           /\ Call(t, [Top(t) EXCEPT !.pc = "dy_checked", !.n = added],
                   DyFrame("douyin.check_login_status", "enter"))
           /\ ev' = [DyEv(t, "dy_restore_cookies", out) EXCEPT !.n = added]
     IN
     IF files # {} /\ d.context
     THEN \/ /\ douyin_browser' = [d EXCEPT !.cookies = LatestBackup(files)]
             /\ Go("added", LatestBackup(files))
          \/ /\ UNCHANGED douyin_browser      \* the file does not load
             /\ Go("failed", 0)
     ELSE /\ UNCHANGED douyin_browser
          /\ Go(IF files = {} THEN "no_backup" ELSE "no_context", 0)
  /\ UNCHANGED <<clockVars, xhsVars, storeVars, last_browser_check>>

\* douyin_login_manager.py lines 223-234.
DY_AR_Checked(t) ==
  /\ At(t, "auto_restore_login", "dy_checked")
  /\ LET k == IF ret[t].k = "true" THEN "true" ELSE "false" IN
     /\ douyin_browser' = IF k = "true" THEN [douyin_browser EXCEPT !.is_logged_in = TRUE]
                                        ELSE douyin_browser
     /\ Return(t, RV(k, <<>>, "checked"))
     /\ ev' = [DyEv(t, "ar_return", k) EXCEPT !.n = Top(t).n]
  /\ UNCHANGED <<clockVars, xhsVars, storeVars, last_browser_check>>

\* check_login_status with force_check=True, lines 122-124: ensure_browser().
DY_CL_Enter(t) ==
  /\ At(t, "douyin.check_login_status", "enter")
  /\ Call(t, [Top(t) EXCEPT !.pc = "page"], DyFrame("douyin.ensure_browser", "enter"))
  /\ ev' = DyEv(t, "dy_cl_enter", "")
  /\ UNCHANGED <<clockVars, xhsVars, storeVars, douyin_browser, last_browser_check>>

\* Lines 127-129: without a page, ensure_browser(force_check=True).
DY_CL_Page(t) ==
  /\ At(t, "douyin.check_login_status", "page")
  /\ IF ~douyin_browser.main_page
     THEN Call(t, [Top(t) EXCEPT !.pc = "closed"],
               [DyFrame("douyin.ensure_browser", "enter") EXCEPT !.fc = TRUE])
     ELSE Jump(t, [Top(t) EXCEPT !.pc = "closed"])
  /\ ev' = DyEv(t, "dy_cl_page", "")
  /\ UNCHANGED <<clockVars, xhsVars, storeVars, douyin_browser, last_browser_check>>

\* Lines 132-161: a closed page, or none (None has no is_closed and its .url
\* raises): ensure_browser(force_check=True).
DY_CL_Closed(t) ==
  /\ At(t, "douyin.check_login_status", "closed")
  /\ IF ~douyin_browser.main_page \/ douyin_browser.closed
     THEN /\ Call(t, [Top(t) EXCEPT !.pc = "url"],
                  [DyFrame("douyin.ensure_browser", "enter") EXCEPT !.fc = TRUE])
          /\ ev' = DyEv(t, "dy_cl_closed", "relaunch")
     ELSE /\ Jump(t, [Top(t) EXCEPT !.pc = "url"])
          /\ ev' = DyEv(t, "dy_cl_closed", "open")
  /\ UNCHANGED <<clockVars, xhsVars, storeVars, douyin_browser, last_browser_check>>

\* Lines 164-170: goto(home) unless the page is on the site (the url of None
\* raises, and goto is awaited then too).
DY_CL_Url(t) ==
  /\ At(t, "douyin.check_login_status", "url")
  /\ IF ~douyin_browser.main_page \/ ~douyin_browser.at_site
     THEN /\ Call(t, [Top(t) EXCEPT !.pc = "query"], DyFrame("douyin.goto", "enter"))
          /\ ev' = DyEv(t, "dy_cl_goto", "")
     ELSE /\ Jump(t, [Top(t) EXCEPT !.pc = "query"])
          /\ ev' = DyEv(t, "dy_cl_on_site", "")
  /\ UNCHANGED <<clockVars, xhsVars, storeVars, douyin_browser, last_browser_check>>

\* Lines 173-201: the login button is looked for on the page; an error of the
\* query counts as not logged in, one of goto is caught at line 197.
\* ev: n = the snapshot the run of auto_restore_login added, m = the one the
\* context holds.
DY_CL_Query(t) ==
  /\ At(t, "douyin.check_login_status", "query")
  /\ LET d == douyin_browser
         s == stack[t]
         added == IF Len(s) > 1 /\ s[Len(s) - 1].fn = "auto_restore_login"
                  THEN s[Len(s) - 1].n ELSE 0
         Done(logged, out) ==
           /\ douyin_browser' = [d EXCEPT !.is_logged_in = logged]
           /\ Return(t, RV(IF logged THEN "true" ELSE "false", <<>>, out))
           /\ ev' = [DyEv(t, "dy_verified", out) EXCEPT !.n = added, !.m = d.cookies]
     IN
     IF ret[t].k = "raise"
     THEN Done(FALSE, "goto_raised")
     ELSE IF ~d.main_page \/ d.closed
     THEN Done(FALSE, "query_raised")
     ELSE \/ Done(FALSE, "query_raised")
          \/ Done(FALSE, "button")
          \/ Done(TRUE, "no_button")
  /\ UNCHANGED <<clockVars, xhsVars, storeVars, last_browser_check>>

\* DouyinBrowserManager and DouyinLoginManager.
Douyin(t) ==
  \/ DY_EB_Enter(t) \/ DY_EB_Started(t) \/ DY_SB_Close(t) \/ DY_SB_Launch(t)
  \/ DY_G_Enter(t) \/ DY_G_Load(t)
  \/ DY_AR_Ensured(t) \/ DY_AR_Checked(t)
  \/ DY_CL_Enter(t) \/ DY_CL_Page(t) \/ DY_CL_Closed(t) \/ DY_CL_Url(t) \/ DY_CL_Query(t)

\* ----------------------------------------------------------------------- clock
\* The steps that read the clock (time.time(), datetime.now()).  Time passes
\* while a coroutine is suspended, and only these steps see how much: the clock
\* advances right before one of them.
ClockReaders ==
  { <<"ensure_browser", "enter">>, <<"ensure_browser", "after_start">>,
    <<"ensure_browser", "after_probe">>, <<"ensure_browser", "after_restart">>,
    <<"_safe_restart", "enter">>, <<"_start_browser", "launch">>,
    <<"auto_restore_login", "enter">>, <<"save_login_state", "enter">> }

ReadsClock(t) ==
  /\ stack[t] # <<>>
  /\ <<Top(t).fn, Top(t).pc>> \in ClockReaders

Tick ==
  /\ ticks < MaxTicks
  /\ ReadsClock(1)
  /\ \E d \in TickSteps : now' = now + d
  /\ ticks' = ticks + 1
  /\ ev' = Ev(0, "tick", "")
  /\ UNCHANGED <<handleVars, storeVars, is_logged_in, last_health_check,
                 restart_timestamps, browser_healthy, disconnect_seen, douyin_browser, at_site, stack, ret, budget_log,
                 last_browser_check>>

\* --------------------------------------------------------------- specification
\* After BrowserManager.__init__ (lines 26-41); login_state.json is absent, or
\* left by an earlier run of the process: fresh, or older than the retention.
Init ==
  /\ now = StartTime
  /\ ticks = 0
  /\ playwright_instance = FALSE
  /\ browser_context = FALSE
  /\ main_page = FALSE
  /\ is_logged_in = FALSE
  /\ last_health_check = 0
  /\ restart_timestamps = <<>>
  /\ browser_healthy = TRUE
  /\ disconnect_seen = FALSE
  /\ at_site = FALSE
  /\ \E lt \in {0, StartTime - 1, StartTime - RetentionDays * SecondsPerDay - 1} :
       login_state_file = [m \in Managers |-> IF m = "xhs" THEN lt ELSE 0]
  /\ login_state_info = [m \in Managers |-> NoInfo]
  /\ cookie_backups = [m \in Managers |-> {}]
  /\ last_cookie_backup = [m \in Managers |-> 0]
  /\ douyin_browser = DouyinNew
  /\ stack = [t \in Tasks |-> <<>>]
  /\ ret = [t \in Tasks |-> NoRet]
  /\ ev = Ev(0, "init", "")
  /\ last_browser_check = 0
  /\ budget_log = [pure |-> TRUE, fr |-> 0]

\* The session controller: ensure_browser and what it awaits, up to the login
\* popup of a navigation.
Core(t) ==
  \/ EB_Enter(t) \/ EB_AfterStart(t) \/ EB_AfterRestore(t) \/ EB_AfterProbe(t)
  \/ EB_AfterRestart(t) \/ EB_AfterLight(t)
  \/ NB_Probe(t) \/ LR_Recover(t) \/ SaveLoginState(t) \/ BackupCookies(t)
  \/ SR_Enter(t) \/ SR_Close(t) \/ SR_Stop(t) \/ SR_AfterStart(t) \/ SR_AfterRestore(t)
  \/ SB_Begin(t) \/ SB_StartDriver(t) \/ SB_Launch(t)
  \/ AR_Enter(t) \/ AR_AfterEnsure(t) \/ AR_AfterCheck(t)

\* Navigation and the login-status check.
Nav(t) ==
  \/ CL_Enter(t) \/ CL_Url(t) \/ CL_Query(t)
  \/ G_Enter(t) \/ G_Attempt(t) \/ G_AfterPopup(t)
  \/ HP_Enter(t)

\* Interactive login.
Login(t) ==
  \/ HP_AfterLogin(t)
  \/ S_Enter(t) \/ S_AfterRestore(t) \/ S_Page(t) \/ S_Find(t) \/ S_Already(t)
  \/ S_Wait(t) \/ S_Success(t)
  \/ L_Enter(t) \/ L_After(t)

\* One caller at a time awaiting ensure_browser (the use the tools and managers
\* make of the manager); an interactive login started by a popup is explored
\* in SpecAll.
Next == Tick \/ CallEnsureBrowser(1) \/ Core(1) \/ Nav(1)

Spec == Init /\ [][Next]_vars

\* The same with goto and login as entry points.
NextAll ==
  \/ Tick
  \/ CallEnsureBrowser(1) \/ CallGoto(1) \/ CallLogin(1)
  \/ Core(1) \/ Nav(1) \/ Login(1)

SpecAll == Init /\ [][NextAll]_vars

\* A process that starts with a fresh record, up to the interactive login a
\* navigation can lead to; the clock stands still.
InitLogin == Init /\ login_state_file["xhs"] = StartTime - 1

NextLogin == CallEnsureBrowser(1) \/ Core(1) \/ Nav(1) \/ Login(1)

SpecLogin == InitLogin /\ [][NextLogin]_vars

\* The tools' managers: ensure_login and the operations behind
\* @validate_login as entry points; the clock stands still.
NextGate == CallEnsureLogin(1) \/ CallValidated(1) \/ Core(1) \/ Nav(1) \/ Gate(1)

SpecGate == Init /\ [][NextGate]_vars

\* _light_recovery taken by itself, on the sessions ensure_browser leaves.
NextLight == CallEnsureBrowser(1) \/ CallLightRecovery(1) \/ Core(1) \/ Nav(1)

SpecLight == InitLogin /\ [][NextLight]_vars

\* Sessions brought up, restarted and closed; the clock stands still.
NextClose == CallEnsureBrowser(1) \/ CallClose(1) \/ Core(1) \/ Nav(1) \/ Close(1)

SpecClose == InitLogin /\ [][NextClose]_vars

\* The login tool: a caller awaits login() in a process that starts with a
\* fresh record; the clock stands still.
NextLoginCall == CallLogin(1) \/ Core(1) \/ Nav(1) \/ Login(1)

SpecLoginCall == InitLogin /\ [][NextLoginCall]_vars

\* Two callers of ensure_browser whose coroutines interleave at their await
\* points, on a manager with no login record, the clock standing still.
InitConc == Init /\ login_state_file["xhs"] = 0

NextConc ==
  \E t \in Tasks :
    \/ CallEnsureBrowser(t)
    \/ EB_Enter(t) \/ EB_AfterStart(t) \/ EB_AfterRestore(t) \/ EB_AfterProbe(t)
    \/ EB_AfterRestart(t) \/ EB_AfterLight(t)
    \/ NB_Probe(t) \/ LR_Recover(t)
    \/ SR_Enter(t) \/ SR_Close(t) \/ SR_Stop(t) \/ SR_AfterStart(t) \/ SR_AfterRestore(t)
    \/ SB_Begin(t) \/ SB_StartDriver(t) \/ SB_Launch(t)
    \/ AR_Enter(t)

SpecConc == InitConc /\ [][NextConc]_vars

\* ------------------------------------------------- the store and the archive
\* The clock between two calls on the store: half a backup interval of
\* LoginStateManager, or the rest of DouyinLoginManager's.
MaxStoreTicks == 3
StoreSteps == {XhsBackupInterval \div 2, DouyinBackupInterval - XhsBackupInterval \div 2}

StoreTick ==
  /\ ticks < MaxStoreTicks
  /\ \A t \in Tasks : stack[t] = <<>>
  /\ \E d \in StoreSteps : now' = now + d
  /\ ticks' = ticks + 1
  /\ ev' = Ev(0, "tick", "")
  /\ UNCHANGED <<handleVars, storeVars, is_logged_in, last_health_check, restart_timestamps,
                 browser_healthy, disconnect_seen, douyin_browser, at_site, stack, ret, budget_log,
                 last_browser_check>>

\* The server process t awaits save_login_state(info), load_login_state() or
\* _backup_cookies() of its manager m.  The two servers (mcp_xiaohongshu.py,
\* start_douyin_mcp.py) are separate processes: a run drives one of them.
CallStore(t, m) ==
  /\ \A u \in Tasks : stack[u] = <<>>
  /\ \A u \in Tasks \ {t} : ret[u] = NoRet
  /\ \/ \E info \in Infos :
          stack' = [stack EXCEPT ![t] =
                      <<[Frame("save_login_state", "enter") EXCEPT !.mgr = m, !.arg = info]>>]
     \/ stack' = [stack EXCEPT ![t] = <<[Frame("load_login_state", "enter") EXCEPT !.mgr = m]>>]
     \/ stack' = [stack EXCEPT ![t] = <<[Frame("_backup_cookies", "enter") EXCEPT !.mgr = m]>>]
  /\ ret' = [ret EXCEPT ![t] = NoRet]
  /\ ev' = Ev(t, "call_store", "")
  /\ UNCHANGED <<clockVars, handleVars, storeVars, is_logged_in, last_health_check,
                 restart_timestamps, browser_healthy, disconnect_seen, douyin_browser, at_site, budget_log, last_browser_check>>

\* Snapshots an earlier run of the process left in the archive.
OldBackups == {StartTime - k * DouyinBackupInterval : k \in 1..MaxBackups}

\* The state files an earlier run left: none, a fresh one, one that has just
\* reached the retention age, one that is past it.
OldStateFiles == {0, StartTime - 1, StartTime - RetentionDays * SecondsPerDay,
                  StartTime - RetentionDays * SecondsPerDay - 1}

\* A manager whose session is up (after a first ensure_browser) or not yet, with
\* the files an earlier run left.
InitStore ==
  /\ now = StartTime
  /\ ticks = 0
  /\ \E live \in BOOLEAN :
       /\ playwright_instance = live
       /\ browser_context = live
       /\ main_page = live
       /\ restart_timestamps = IF live THEN <<StartTime>> ELSE <<>>
       /\ budget_log = [pure |-> ~live, fr |-> 0]
       /\ douyin_browser = [DouyinNew EXCEPT !.playwright = live, !.browser = live,
                                             !.context = live, !.main_page = live]
  /\ is_logged_in = FALSE
  /\ last_health_check = 0
  /\ browser_healthy = TRUE
  /\ disconnect_seen = FALSE
  /\ at_site = FALSE
  /\ \E lt \in OldStateFiles : login_state_file = [m \in Managers |-> lt]
  /\ login_state_info = [m \in Managers |-> NoInfo]
  /\ \E old \in {{}, OldBackups} : cookie_backups = [m \in Managers |-> old]
  /\ last_cookie_backup = [m \in Managers |-> 0]
  /\ stack = [t \in Tasks |-> <<>>]
  /\ ret = [t \in Tasks |-> NoRet]
  /\ ev = Ev(0, "init", "")
  /\ last_browser_check = 0

NextStore ==
  \/ StoreTick
  \/ CallStore(1, "xhs") \/ CallStore(2, "douyin")
  \/ \E t \in Tasks : SaveLoginState(t) \/ LoadLoginState(t) \/ BackupCookies(t)

SpecStore == InitStore /\ [][NextStore]_vars

\* A server process whose login tool awaits auto_restore_login() of its
\* manager (login_manager.py line 202, douyin_browser.py line 278), with the
\* state file and the archive an earlier run left; the clock stands still.
CallRestore(t, m) ==
  /\ \A u \in Tasks : stack[u] = <<>>
  /\ \A u \in Tasks \ {t} : ret[u] = NoRet
  /\ stack' = [stack EXCEPT ![t] = <<[Frame("auto_restore_login", "enter") EXCEPT !.mgr = m]>>]
  /\ ret' = [ret EXCEPT ![t] = NoRet]
  /\ ev' = [Ev(t, "call_restore", "") EXCEPT !.mgr = m]
  /\ UNCHANGED <<clockVars, xhsVars, storeVars, douyin_browser, last_browser_check>>

InitRestore ==
  /\ now = StartTime
  /\ ticks = 0
  /\ playwright_instance = FALSE
  /\ browser_context = FALSE
  /\ main_page = FALSE
  /\ is_logged_in = FALSE
  /\ last_health_check = 0
  /\ restart_timestamps = <<>>
  /\ browser_healthy = TRUE
  /\ disconnect_seen = FALSE
  /\ at_site = FALSE
  /\ \E lt \in OldStateFiles : login_state_file = [m \in Managers |-> lt]
  /\ login_state_info = [m \in Managers |-> NoInfo]
  /\ \E old \in {{}, OldBackups} : cookie_backups = [m \in Managers |-> old]
  /\ last_cookie_backup = [m \in Managers |-> 0]
  /\ douyin_browser = DouyinNew
  /\ stack = [t \in Tasks |-> <<>>]
  /\ ret = [t \in Tasks |-> NoRet]
  /\ ev = Ev(0, "init", "")
  /\ last_browser_check = 0
  /\ budget_log = [pure |-> TRUE, fr |-> 0]

NextRestore ==
  \/ CallRestore(1, "xhs") \/ CallRestore(2, "douyin")
  \/ DY_PageCloses
  \/ \E t \in Tasks : Core(t) \/ Nav(t) \/ Douyin(t)

SpecRestore == InitRestore /\ [][NextRestore]_vars

\* ---------------------------------------------------------------------- claims
\* The step just taken ended an ensure_browser call.
EBReturned ==
  \/ ev.k = "eb_return"
  \/ ev.k = "eb_enter" /\ ev.out \in {"rate_limited", "fast"}

InFn(t, fn) == \E i \in 1..Len(stack[t]) : stack[t][i].fn = fn

\* C1: whenever ensure_browser returns True, browser_context and main_page are
\* both non-null.
C1_ReadyHasSession ==
  (EBReturned /\ ret[ev.t].k = "true") => (browser_context /\ main_page)

\* C2: recovery is non-reentrant: at no time are two driver bring-ups
\* (_start_browser past its conflict cleanup) or two full restarts in progress.
C2_OneRecoveryAtATime ==
  /\ Cardinality({t \in Tasks : \E i \in 1..Len(stack[t]) :
                     /\ stack[t][i].fn = "_start_browser"
                     /\ stack[t][i].pc \in {"loop", "launch"}}) <= 1
  /\ Cardinality({t \in Tasks : InFn(t, "_safe_restart")}) <= 1

\* C3: with max_restarts_per_hour entries younger than 3600s in the record,
\* _can_restart() is False and ensure_browser returns False at once, no
\* bring-up, probe or restart begun.
C3_RateLimited ==
  /\ YoungCount(restart_timestamps, now) >= MaxRestartsPerHour
       => ~CanRestart(restart_timestamps, now)
  /\ (ev.k = "eb_enter" /\ ev.n >= MaxRestartsPerHour)
       => /\ ev.out = "rate_limited"
          /\ ret[ev.t].k = "false"
          /\ ~InFn(ev.t, "_start_browser")

C3_Witness ==
  /\ ev.k = "eb_enter"
  /\ ev.n >= MaxRestartsPerHour
  /\ ev.out = "rate_limited"
  /\ ~browser_context

\* C4: starting from an empty record, _can_restart() is true before each of the
\* first max_restarts_per_hour full restarts of one window.
C4_FirstThreeRestartsAllowed ==
  (/\ budget_log.pure
   /\ budget_log.fr < MaxRestartsPerHour
   /\ \A t \in Tasks : ~InFn(t, "_safe_restart"))
    => CanRestart(restart_timestamps, now)

\* C5: entries aged 3600s or more do not count: with fewer than
\* max_restarts_per_hour younger entries, _can_restart() is True and
\* ensure_browser does not return False for rate limiting.
C5_BudgetResets ==
  /\ YoungCount(restart_timestamps, now) < MaxRestartsPerHour
       => CanRestart(restart_timestamps, now)
  /\ (ev.k = "eb_enter" /\ ev.n < MaxRestartsPerHour) => ev.out # "rate_limited"

C5_Witness ==
  /\ ev.k = "eb_enter"
  /\ ev.m >= MaxRestartsPerHour
  /\ ev.n < MaxRestartsPerHour
  /\ ev.out # "rate_limited"

\* C6: a _safe_restart that completes has added exactly one entry to
\* restart_timestamps.
C6_RestartConsumesOne ==
  (ev.k = "sr_return" /\ ev.out = "done") => Len(restart_timestamps) = ev.n + 1

\* C7: with a session, force_check false and a health check younger than 300s,
\* ensure_browser returns True at once, whatever the restart record holds.
C7_FastPath ==
  (/\ ev.k = "eb_enter"
   /\ ev.note # "forced"
   /\ browser_context /\ main_page
   /\ now - last_health_check < HealthCheckInterval)
    => (ev.out = "fast" /\ ret[ev.t].k = "true")

\* C8: ensure_browser never propagates an exception: every call ends with a
\* returned boolean.
C8_NeverRaises ==
  EBReturned => ret[ev.t].k \in {"true", "false"}

C8_Witness ==
  /\ ev.k = "eb_return"
  /\ ev.out = "handler_denied"
  /\ ret[ev.t].k = "false"

C10_LightRecoveryFirst ==
  ev.k = "eb_unhealthy" => Top(ev.t).fn = "_light_recovery"

\* C11: after goto saw a closed/disconnected navigation failure, the next
\* ensure_browser call on the manager does not return through the fast path.
C11_DisconnectForcesCheck ==
  (ev.k = "eb_enter" /\ ev.dc) => ev.out # "fast"

\* C12: goto makes at most max_retries + 1 attempts, returns True when an
\* attempt succeeds, False when the last one fails, and never raises.
C12_GotoBounded ==
  /\ ev.k \in {"goto_loaded", "goto_failed", "goto_return"} => ev.n <= GotoMaxRetries
  /\ ev.k = "goto_return" => (ev.out = "true" /\ ret[ev.t].k = "true")
  /\ (ev.k = "goto_failed" /\ ev.out = "exhausted")
       => (ev.n = GotoMaxRetries /\ ret[ev.t].k = "false")
  /\ (ev.k = "goto_failed" /\ ev.n = GotoMaxRetries) => ev.out = "exhausted"

C12_Witness ==
  /\ ev.k = "goto_failed"
  /\ ev.out = "exhausted"
  /\ ev.note = "other"
  /\ ~main_page
  /\ ret[ev.t].k = "false"

\* C13: load_login_state on a record older than the retention period returns
\* None and deletes the file, so the following load returns None too; on a
\* record within the period it returns the record and leaves the file.
C13_LazyExpiration ==
  (ev.k = "load_login_state" /\ ev.note = "parses" /\ ev.m # 0) =>
    IF now - ev.m > RetentionDays * SecondsPerDay
    THEN /\ ret[ev.t].k = "null"
         /\ login_state_file[ev.mgr] = 0
         /\ ~LoadResult(login_state_file[ev.mgr], login_state_info[ev.mgr], now).found
    ELSE /\ ret[ev.t].k = "record"
         /\ login_state_file[ev.mgr] = ev.m
         /\ ev.info = PyDict(login_state_info[ev.mgr].items)

C13_Witness ==
  /\ ev.k = "load_login_state"
  /\ ev.out = "expired"
  /\ now - ev.m > RetentionDays * SecondsPerDay
  /\ login_state_file[ev.mgr] = 0
  /\ ret[ev.t].k = "null"

\* C14: save_login_state(info), the state file being writable, followed by
\* load_login_state within the retention period returns a record whose
\* login_info equals info, for every info.
C14_RoundTrip ==
  (ev.k = "save_login_state" /\ ev.out # "open_failed") =>
    LET r == LoadResult(login_state_file[ev.mgr], login_state_info[ev.mgr], now) IN
    /\ r.found
    /\ PyDict(r.login_info) = ev.info

\* C16: the archive of either manager never holds more than 5 snapshots.
C16_ArchiveBounded ==
  \A m \in Managers : Cardinality(cookie_backups[m]) <= MaxBackups

C16_Witness ==
  /\ ev.k = "backup"
  /\ ev.out = "written"
  /\ Cardinality(ev.files) = MaxBackups
  /\ Cardinality(cookie_backups[ev.mgr]) = MaxBackups
  /\ cookie_backups[ev.mgr] # ev.files

\* C17: a _backup_cookies call less than the manager's interval after the
\* previous backup writes nothing: the archive and _last_cookie_backup are
\* as they were.
C17_BackupRateLimited ==
  (ev.k = "backup" /\ now - ev.m < BackupInterval(ev.mgr)) =>
    /\ cookie_backups[ev.mgr] = ev.files
    /\ last_cookie_backup[ev.mgr] = ev.m

C17_Witness ==
  /\ ev.k = "backup"
  /\ ev.out = "skipped"
  /\ ev.m \in ev.files
  /\ now > ev.m
  /\ cookie_backups[ev.mgr] = ev.files
  /\ last_cookie_backup[ev.mgr] = ev.m

\* C19: on a cold start with no state record, ensure_browser does not return
\* True until the interactive login has succeeded and written a record.
C19_ColdStartNeedsLogin ==
  (ev.k = "eb_return" /\ ev.out = "cold_start" /\ ev.note = "no_record"
     /\ ret[ev.t].k = "true")
    => (is_logged_in /\ login_state_file["xhs"] # 0)

\* C20: with a fresh record and a verification that finds the user logged
\* in, auto_restore_login returns True with is_logged_in set, and the wait
\* loop of smart_login was not entered during the run.
C20_RestoreWithoutInteraction ==
  (ev.k = "ar_return" /\ ev.out = "true") =>
    /\ ret[ev.t].k = "true"
    /\ is_logged_in
    /\ ev.n = 0

\* C15: with the state record absent or expired, auto_restore_login of
\* either manager returns False at once (no ensure_browser, no archive read,
\* no verification navigation), and both cases leave no state file.
C15_RestoreNeedsRecord ==
  (ev.k \in {"ar_return", "ar_loaded"} /\ ev.note = "load"
     /\ (ev.m = 0 \/ now - ev.m > RetentionDays * SecondsPerDay)) =>
    /\ ev.k = "ar_return"
    /\ ev.out \in {"no_record", "expired"}
    /\ ret[ev.t].k = "false"
    /\ login_state_file[ev.mgr] = 0
    /\ (stack[ev.t] # <<>> =>
          ~(Top(ev.t).fn \in {"ensure_browser", "douyin.ensure_browser"} /\ Top(ev.t).pc = "enter"))

C15_Witness ==
  /\ ev.k = "ar_return"
  /\ ev.note = "load"
  /\ ev.out = "expired"
  /\ ev.mgr = "douyin"
  /\ ev.m # 0
  /\ cookie_backups["douyin"] # {}
  /\ ret[ev.t].k = "false"

\* C18: the session the verification of auto_restore_login queries is the
\* one that received the snapshot the run injected: no relaunch in between.
C18_VerifiesInjectedSession ==
  (ev.k = "dy_verified" /\ ev.n # 0) => ev.m = ev.n

\* C21: the wait loop of smart_login polls at most 180 / 5 = 36 times; when
\* the login button never goes it returns the timeout message, is_logged_in
\* and the state file as they were, and login() then leaves is_logged_in False.
C21_WaitBounded ==
  /\ ev.k \in {"smart_login_poll", "smart_login_user_done"}
       => (ev.n \div WaitInterval) + 1 <= MaxWaitTime \div WaitInterval
  /\ (ev.k = "smart_login_return" /\ ev.out = "timeout") =>
       /\ ev.n = MaxWaitTime
       /\ ret[ev.t].msg = ResTimeout
       /\ is_logged_in = ev.li
       /\ login_state_file["xhs"] = ev.m
  /\ (ev.k = "login_return" /\ ev.note = "timeout") =>
       (ev.out = "not_logged_in" /\ ~is_logged_in)

C21_Witness ==
  /\ ev.k = "login_return"
  /\ ev.note = "timeout"
  /\ ~is_logged_in
  /\ ret[ev.t].msg = ResTimeout

\* C22: _start_browser makes at most 3 launch attempts; when each of them
\* fails with a singleton conflict (cleaned up before the retry) the call
\* ends by raising after the third.
C22_StartAttemptsBounded ==
  /\ \A t \in Tasks : \A i \in 1..Len(stack[t]) :
       stack[t][i].fn = "_start_browser" => stack[t][i].n <= MaxStartAttempts
  /\ ev.k \in {"sb_driver", "sb_failed", "sb_return"} => ev.n <= MaxStartAttempts
  /\ (ev.k = "sb_failed" /\ ev.n = MaxStartAttempts) => ev.out = "singleton"
  /\ (ev.k = "sb_return" /\ ev.out = "raise" /\ ret[ev.t].note = "start_exhausted") =>
       /\ ev.n = MaxStartAttempts
       /\ ret[ev.t].k = "raise"
       /\ ret[ev.t].msg = MsgStartFinal

C22_Witness ==
  /\ ev.k = "sb_return"
  /\ ev.out = "raise"
  /\ ev.n = MaxStartAttempts
  /\ ret[ev.t] = RV("raise", MsgStartFinal, "start_exhausted")

\* C23: the entries of restart_timestamps younger than 3600s are never more
\* than max_restarts_per_hour.
C23_RecordWithinLimit ==
  YoungCount(restart_timestamps, now) <= MaxRestartsPerHour

\* C24: a driver bring-up that ensure_browser awaits without a live session
\* adds one entry to the restart record, whether it succeeds or fails.
C24_BringUpConsumesToken ==
  (/\ ev.k = "sb_return"
   /\ stack[ev.t] # <<>>
   /\ Top(ev.t).fn = "ensure_browser"
   /\ Top(ev.t).pc = "after_start")
    => Len(restart_timestamps) = Len(ev.ts0) + 1

\* C25: when the body of ensure_browser raises, one _light_recovery attempt
\* is made and ensure_browser returns what the attempt achieved: True when it
\* succeeded, False when it failed.
C25_LightRecoveryDecides ==
  /\ (ev.k = "eb_return" /\ ev.out = "light") => ret[ev.t].k = ev.note
  /\ ev.k = "eb_return" => ev.out # "handler_denied"

\* C26: an ensure_browser call that returns True after a cold-start
\* bring-up, a passed health check or a full restart has set
\* last_health_check to the time of the call (the clock standing still: now).
C26_WorkStampsHealthCheck ==
  (/\ ev.k = "eb_return"
   /\ ev.out \in {"cold_start", "healthy", "restarted"}
   /\ ret[ev.t].k = "true")
    => last_health_check = now

C28_OneInteractiveWait ==
  \A t \in Tasks :
    (stack[t] # <<>> /\ stack[t][1].fn = "login") => stack[t][1].n <= 1

\* C29: when _safe_restart completes, is_logged_in is True only if
\* auto_restore_login verified the login on the new session (it returned
\* True); the flag of the old session is not carried over.
C29_RestartReverifiesLogin ==
  (ev.k = "sr_return" /\ ev.out = "done" /\ is_logged_in) => ev.note = "true"

\* C30: an ensure_browser call that finds the session healthy, or recovers
\* it, and returns True leaves _browser_healthy True, whatever a disconnect
\* had marked before.
C30_HealthyMarkRestored ==
  (/\ ev.k = "eb_return"
   /\ \/ ev.out \in {"healthy", "restarted"}
      \/ ev.out = "light" /\ ev.note = "true"
   /\ ret[ev.t].k = "true")
    => browser_healthy

\* C31: in _safe_restart the record of a logged-in session is saved before
\* the old session is torn down; the conflict cleanup of _start_browser runs
\* with the old handles already reset and before any launch attempt; and
\* auto_restore_login is awaited only once the new session is up.
C31_RestartOrder ==
  /\ (ev.k = "sr_close" /\ is_logged_in) =>
       (ev.out = "after_save" /\ browser_context /\ main_page)
  /\ (ev.k = "sb_cleanup" /\ Len(stack[ev.t]) > 1
        /\ stack[ev.t][Len(stack[ev.t]) - 1].fn = "_safe_restart") =>
       (/\ ~playwright_instance /\ ~browser_context /\ ~main_page
        /\ Top(ev.t).n = 0 /\ Top(ev.t).pc = "loop")
  /\ \A t \in Tasks : \A i \in 1..Len(stack[t]) :
       (stack[t][i].fn = "_safe_restart" /\ stack[t][i].pc = "after_restore"
          /\ ev.k = "sr_started")
         => (playwright_instance /\ browser_context /\ main_page)

\* A logged-in session has been restarted: its record was saved by the
\* restart, the new session is up and the restore is about to run.
C31_Witness ==
  /\ ev.k = "sr_started"
  /\ is_logged_in
  /\ login_state_info["xhs"] = FileInfo(StoredInfo(InfoRestart))
  /\ playwright_instance /\ browser_context /\ main_page

\* The state close() leaves: no handle, not logged in, marked unhealthy.
Closed(ms) == ~ms[1] /\ ~ms[2] /\ ~ms[3] /\ ~ms[4] /\ ~ms[5]

\* C32: an error of browser_context.close() or playwright_instance.stop()
\* never leaves _safe_restart or close(): _safe_restart goes on to reset the
\* three handles and to the bring-up, close() returns with the three handles
\* reset; and a close() called on a closed manager changes nothing.
C32_TeardownSafe ==
  /\ ev.k # "sr_raised"
  /\ ev.k = "sr_close" => At(ev.t, "_safe_restart", "stop")
  /\ ev.k = "sr_teardown" =>
       /\ ~playwright_instance /\ ~browser_context /\ ~main_page
       /\ At(ev.t, "_start_browser", "begin")
  /\ ev.k = "close_return" =>
       /\ ret[ev.t].k = "void"
       /\ ~playwright_instance /\ ~browser_context /\ ~main_page
       /\ Closed(ev.ts0) => ManagerState = ev.ts0

\* close() came back from a live session whose teardown raised.
C32_Witness ==
  /\ ev.k = "close_return"
  /\ ev.ts0[2] /\ ev.ts0[3]
  /\ ev.note = "teardown_raised"
  /\ ret[ev.t].k = "void"
  /\ ~playwright_instance /\ ~browser_context /\ ~main_page

\* C33: ensure_login returns True only with is_logged_in True, on the cached
\* path and on the path through ensure_browser; and an operation behind
\* @validate_login runs only with is_logged_in True.
C33_LoginGate ==
  /\ (ev.k = "ensure_login_return" /\ ret[ev.t].k = "true") => is_logged_in
  /\ (ev.k = "validate_return" /\ ev.out = "operation_run") => is_logged_in

\* C34: DouyinBrowserManager.ensure_browser returns True only with browser,
\* context and main_page all set, whatever start_browser did.
C34_DouyinReadyHasSession ==
  (ev.k = "dy_eb_return" /\ ret[ev.t].k = "true")
    => (douyin_browser.browser /\ douyin_browser.context /\ douyin_browser.main_page)

\* C35: when _start_browser starts a driver, playwright_instance refers to
\* no driver that is still running: the one of a failed attempt, singleton
\* conflicts included, has been stopped and the field reset before the retry.
C35_NoDriverLeftBehind ==
  ev.k = "sb_driver" => ~ev.dc

\* C36: a backup that takes the archive above 5 files deletes exactly the
\* oldest ones, so that the 5 newest stay (a smaller archive loses nothing);
\* _restore_cookies adds the snapshot with the latest timestamp, and with an
\* empty archive it adds nothing and raises nothing.
C36_NewestKeptAndRestored ==
  /\ (ev.k = "backup" /\ ev.out = "written") =>
       LET all == ev.files \cup {now}
           kept == cookie_backups[ev.mgr]
       IN /\ kept \subseteq all
          /\ now \in kept
          /\ Cardinality(kept) = IF Cardinality(all) > MaxBackups
                                 THEN MaxBackups ELSE Cardinality(all)
          /\ \A f \in all \ kept : \A g \in kept : f < g
  /\ (ev.k = "dy_restore_cookies" /\ ev.out = "added") =>
       /\ ev.n \in cookie_backups["douyin"]
       /\ \A g \in cookie_backups["douyin"] : g <= ev.n
       /\ douyin_browser.cookies = ev.n
  /\ (ev.k = "dy_restore_cookies" /\ cookie_backups["douyin"] = {}) =>
       /\ ev.out = "no_backup"
       /\ douyin_browser.cookies = 0
       /\ At(ev.t, "douyin.check_login_status", "enter")

\* A backup took a full archive above 5 files: the oldest went, the new one
\* stayed.
C36_Witness ==
  /\ ev.k = "backup"
  /\ ev.out = "written"
  /\ Cardinality(ev.files) = MaxBackups
  /\ now \notin ev.files
  /\ \E f \in ev.files : f \notin cookie_backups[ev.mgr] /\ \A g \in ev.files : f <= g
  /\ now \in cookie_backups[ev.mgr]

\* C37: DouyinLoginManager._last_cookie_backup advances only in a backup that
\* wrote its snapshot file: an attempt that writes nothing (no context, or
\* save_cookies failing) leaves it as it was.
C37_StampNeedsSnapshot ==
  (ev.k = "backup" /\ ev.mgr = "douyin" /\ last_cookie_backup["douyin"] # ev.m) =>
    (ev.out = "written" /\ now \in cookie_backups["douyin"])

\* C38: _light_recovery leaves restart_timestamps as it found it, whether it
\* creates a page, reuses one or fails.
C38_LightRecoveryKeepsBudget ==
  ev.k = "light_recovery" => restart_timestamps = ev.ts0

\* A light recovery made a new page with bring-ups on the record.
C38_Witness ==
  /\ ev.k = "light_recovery"
  /\ ev.out = "new_page"
  /\ ev.ts0 # <<>>
  /\ restart_timestamps = ev.ts0
  /\ ret[ev.t].k = "true"

====
